---- MODULE Spec2Model ----
(***************************************************************************)
(* Fetch-and-cache subsystem of research-workflow (fetch_and_clean.py,     *)
(* scripts/ingest.py, scripts/media_handler.py): URL validation, the       *)
(* content cache, the jina/wayback retrieval strategy and the batch        *)
(* orchestrator process_urls.                                              *)
(*                                                                         *)
(* Abstractions.  A URL is a record [scheme, host, path]; urlparse is the  *)
(* projection on its fields.  An IP address is a name whose ipaddress      *)
(* properties are given by AddrFlags.  A text is a record [src, len]: len  *)
(* characters of the document src, so that t[:n] is [src, Min(len, n)].    *)
(* SHA-256 is modelled as an injective constructor.  Time is one integer   *)
(* clock (ticks) read by both time.monotonic() and datetime.now().         *)
(***************************************************************************)
EXTENDS Integers, Sequences, FiniteSets, TLC

\* ------------------------------------------------------------------ bounds
\* Longest address list getaddrinfo returns in the model.
MaxAddrs == 2
\* Longest batch handed to process_urls.
MaxBatch == 2
\* Number of out-of-band operations on the cache store before a batch.
MaxSetup == 2
\* The arguments ttl_days and fetch_delay of process_urls, in clock ticks.
ttl_days == 3
fetch_delay == 2
\* Last value of the clock in the specification of is_expired.
MaxClock == 7
\* Longest list handed to deduplicate_urls.
MaxList == 3
\* Most media references in one document.
MaxRefs == 3
\* Most operations on one note.
MaxCalls == 3

\* ------------------------------------------------------- program constants
MAX_CONTENT_CHARS == 50000
\* 50 * 1024 * 1024
MAX_DOWNLOAD_SIZE == 52428800
\* iter_content(chunk_size=8192)
ChunkSize == 8192

\* ------------------------------------------------------------ URL universe
_BLOCKED_HOSTNAMES == {"localhost", "localhost.localdomain"}

\* Addresses, each with the ipaddress properties Python reports for it.
Addrs == {"8.8.8.8", "224.0.0.1", "10.0.0.1", "127.0.0.1", "169.254.169.254", "4000::1"}

AddrFlags(a) ==
    CASE a = "8.8.8.8"         -> {}
      [] a = "224.0.0.1"       -> {}
      [] a = "10.0.0.1"        -> {"is_private"}
      [] a = "127.0.0.1"       -> {"is_private", "is_loopback"}
      [] a = "169.254.169.254" -> {"is_private", "is_link_local"}
      [] a = "4000::1"         -> {"is_reserved"}
      [] OTHER                 -> {}

\* Host names that are not IP literals and not on the deny-list.
DomainNames == {"example.com", "web.archive.org"}

Hosts == _BLOCKED_HOSTNAMES \cup Addrs \cup DomainNames

Schemes == {"http", "https", "ftp", "file"}

Url(s, h, p) == [scheme |-> s, host |-> h, path |-> p]

\* getaddrinfo: raises socket.gaierror, or returns a non-empty address list.
RECURSIVE SeqsUpTo(_, _)
SeqsUpTo(S, n) ==
    IF n = 0 THEN {<<>>}
    ELSE LET shorter == SeqsUpTo(S, n - 1)
         IN  shorter \cup {Append(q, x) : q \in {r \in shorter : Len(r) = n - 1}, x \in S}

GaiError == [gaierror |-> TRUE, addrs |-> <<>>]

DnsResults ==
    {GaiError} \cup {[gaierror |-> FALSE, addrs |-> q] : q \in SeqsUpTo(Addrs, MaxAddrs) \ {<<>>}}

PublicDns == [gaierror |-> FALSE, addrs |-> <<"8.8.8.8">>]

VARIABLES
    dns,        \* the resolver's answer for every domain name
    v_url,      \* SpecValidate: the URL handed to validate_url
    v_out,      \* SpecValidate: "none" before the call, then its outcome
    store,      \* the cache directory: cache key -> file
    now,        \* the clock
    nsetup,     \* out-of-band operations on the store so far
    pc,         \* which program runs, and where process_urls stands
    urls,       \* process_urls: the batch
    i,          \* process_urls: index of the current item
    fetched,    \* process_urls: the fetched list
    failed,     \* process_urls: the failed list
    last_fetch_time, \* process_urls: its rate limiter's timestamp
    fpc,        \* fetch_url: the statement it stands at
    via,        \* fetch_url: "jina" in the first try block, "wayback" in the second
    jurl,       \* the url argument of the running fetch_via_jina / download
    reqlog,     \* events of the running retrieval: validations and requests
    fret,       \* what the retrieval returned or raised
    seen,       \* history: what load_cache read for each item, and when
    invoked,    \* history: the items for which fetch_url was called
    call_prev,  \* history: end of the previous network fetch at the last call
    call_start, \* history: clock at the last call of fetch_url
    net_end,    \* history: clock when the last network fetch ended, -1 if none
    written,    \* history: per key, the entry last handed to save_cache and its file
    exp_obs,    \* SpecExpiry: what is_expired answered, per clock value and entry
    d_pc,       \* SpecDedup: "in" before deduplicate_urls, "once", then "twice"
    d_in,       \* SpecDedup: the list handed to deduplicate_urls
    d_out,      \* SpecDedup: deduplicate_urls(d_in)
    d_again,    \* SpecDedup: deduplicate_urls(d_out)
    sv_pc,      \* SpecSave: where save_cache stands inside write_text
    sv_old,     \* SpecSave: the file as it was when save_cache was called
    sv_new,     \* SpecSave: the record save_cache is writing
    rd_obs,     \* SpecSave: what the concurrent reader read last
    dl_pc,      \* SpecDownload: the statement download_media stands at
    dl_url,     \* SpecDownload: its url argument
    dl_name,    \* SpecDownload: its filename argument, "" when not given
    dl_declared, \* SpecDownload: the Content-Length header of the response
    dl_body,    \* SpecDownload: number of bytes the server sends
    dl_total,   \* SpecDownload: bytes taken from the stream so far
    dl_files,   \* SpecDownload: the files of dest_dir
    dl_before,  \* SpecDownload: the files of dest_dir when download_media was called
    dl_out,     \* SpecDownload: "none", "returned", or the exception raised
    m_pc,       \* SpecMedia: the statement extract_and_download_media stands at
    m_doc,      \* SpecMedia: the media references of the markdown, in text order
    m_under,    \* SpecMedia: whether attachments_dir lies under vault_root
    m_images,   \* SpecMedia: images, the list extract_image_urls returned
    m_videos,   \* SpecMedia: youtube_urls, the list extract_youtube_urls returned
    m_k,        \* SpecMedia: index of the current loop
    m_downloaded, \* SpecMedia: the keys of the dict downloaded
    m_citations, \* SpecMedia: the list citations
    m_tried,    \* SpecMedia history: the assets attempted, with what happened
    m_rewritten, \* SpecMedia: the image URLs rewrite_markdown_images replaced
    m_out,      \* SpecMedia: the markdown returned, reference by reference
    n_pc,       \* SpecNote: "new" before the note exists, then "written"
    n_fm,       \* SpecNote: the lines of the note's frontmatter, delimiters included
    n_body,     \* SpecNote: the lines of the note's body
    n_calls,    \* SpecNote: operations on the note so far
    n_appends,  \* SpecNote history: calls of append_sources_section with citations
    n_withurl,  \* SpecNote history: those of them with a citation that has a source URL
    n_listed    \* SpecNote history: the source lines the section should list

varsValidate == <<v_url, v_out>>
varsBatch == <<store, now, nsetup, pc, urls, i, fetched, failed, last_fetch_time,
               fpc, via, jurl, reqlog, fret, seen, invoked, call_prev, call_start, net_end,
               written>>
varsExpiry == <<exp_obs>>
varsDedup == <<d_pc, d_in, d_out, d_again>>
varsSave == <<sv_pc, sv_old, sv_new, rd_obs>>
varsDownload == <<dl_pc, dl_url, dl_name, dl_declared, dl_body, dl_total, dl_files, dl_before, dl_out>>
varsNote == <<n_pc, n_fm, n_body, n_calls, n_appends, n_withurl, n_listed>>
varsMedia == <<m_pc, m_doc, m_under, m_images, m_videos, m_k, m_downloaded, m_citations, m_tried,
               m_rewritten, m_out>>
\* Variables of the programs modelled apart from the batch.
varsOther == <<varsExpiry, varsDedup, varsSave, varsDownload, varsMedia, varsNote>>
vars == <<dns, varsValidate, varsBatch, varsOther>>

\* --------------------------------------------------------------- validate_url
\* ipaddress.ip_address(hostname): parses exactly the IP literals.
IsIpLiteral(hostname) == hostname \in Addrs

\* addr.is_private or addr.is_loopback or addr.is_reserved or addr.is_link_local
IsBlockedAddr(a) ==
    AddrFlags(a) \cap {"is_private", "is_loopback", "is_reserved", "is_link_local"} # {}

\* The for loop over the resolved addresses: raises at the first blocked one.
AnyResolvedBlockedFirstOnly(resolved, k) ==
    k <= Len(resolved) /\ IsBlockedAddr(resolved[k])

RECURSIVE AnyResolvedBlocked(_, _)
AnyResolvedBlocked(resolved, k) ==
    IF k > Len(resolved) THEN FALSE
    ELSE IF IsBlockedAddr(resolved[k]) THEN TRUE
    ELSE AnyResolvedBlocked(resolved, k + 1)

Ok == [raises |-> "none", msg |-> ""]
Raise(exc, msg) == [raises |-> exc, msg |-> msg]

\* validate_url(url) under the resolver d: Ok, or the ValueError it raises.
validate_url(url, d) ==
    IF url.scheme \notin {"http", "https"} THEN Raise("ValueError", "Blocked URL scheme")
    ELSE IF url.host \in _BLOCKED_HOSTNAMES THEN Raise("ValueError", "Blocked hostname")
    ELSE IF IsIpLiteral(url.host)
         THEN IF IsBlockedAddr(url.host)
              THEN Raise("ValueError", "Blocked private/reserved IP")
              ELSE Ok
    ELSE \* ip_address raised ValueError without "Blocked": resolve the name
         IF d[url.host].gaierror THEN Ok
         ELSE IF AnyResolvedBlocked(d[url.host].addrs, 1)
              THEN Raise("ValueError", "Blocked: resolves to private IP")
              ELSE Ok


\* --------------------------------------------------------------------- texts
\* len characters of the document src; every empty text is the same string.
Text(src, n) == IF n = 0 THEN [src |-> "", len |-> 0] ELSE [src |-> src, len |-> n]
EmptyText == Text("", 0)
\* Marks a key that the dict does not have.
NoText == [src |-> "<absent>", len |-> 0]

Min(a, b) == IF a <= b THEN a ELSE b

\* content[:n]
PrefixWhole(t, n) == t

Prefix(t, n) == Text(t.src, Min(t.len, n))

\* Lengths of the texts a reader response or an earlier save carries.
BodyLens == {12, MAX_CONTENT_CHARS + 1000}

\* --------------------------------------------------------------- cache store
\* hashlib.md5 in the place of hashlib.sha256.
url_cache_key_md5(url) == [alg |-> "md5", of |-> url]

url_cache_key(url) == [alg |-> "sha256", of |-> url]

_content_hash(content) == [alg |-> "sha256", of |-> content]
NoHash == [alg |-> "<absent>", of |-> EmptyText]
EmptyHash == [alg |-> "", of |-> EmptyText]

Stamp(t) == [tag |-> "iso", t |-> t]
BadStamp == [tag |-> "bad", t |-> 0]
NoStamp == [tag |-> "<absent>", t |-> 0]

\* A dict with the keys the cache uses; url and title are carried by the caller.
Entry(c, h, f, m) == [content |-> c, content_hash |-> h, fetched_at |-> f, fetch_method |-> m]
NoEntry == Entry(NoText, NoHash, NoStamp, "<absent>")

\* A file of the cache directory: missing, or its JSON value.
MissingFile == [kind |-> "missing", entry |-> NoEntry]
GarbageFile == [kind |-> "garbage", entry |-> NoEntry]
NonDictFile == [kind |-> "nondict", entry |-> NoEntry]
ObjectFile(e) == [kind |-> "object", entry |-> e]
\* A file under write_text: truncated by open, or holding the head of the JSON text.
EmptyFile == [kind |-> "empty", entry |-> NoEntry]
PartialFile == [kind |-> "partial", entry |-> NoEntry]

\* entry.get("content", "")
ContentOrEmpty(e) == IF e.content = NoText THEN EmptyText ELSE e.content

\* The integrity test of load_cache: stored_hash and _content_hash(...) != stored_hash
IntegrityFails(e) ==
    /\ e.content_hash \notin {NoHash, EmptyHash}
    /\ _content_hash(ContentOrEmpty(e)) # e.content_hash

\* load_cache(cache_dir, cache_key) on the file f: None, the entry, or an exception.
LoadNone == [raises |-> "none", none |-> TRUE, entry |-> NoEntry]
load_cache(f) ==
    IF f.kind = "missing" THEN LoadNone
    ELSE IF f.kind \in {"garbage", "empty", "partial"} THEN LoadNone
    ELSE IF f.kind = "nondict" THEN [raises |-> "AttributeError", none |-> TRUE, entry |-> NoEntry]
    ELSE IF IntegrityFails(f.entry) THEN LoadNone
    ELSE [raises |-> "none", none |-> FALSE, entry |-> f.entry]

\* is_expired(entry, ttl_days) at clock t.
is_expired_inverted(e, ttl, t) ==
    IF e.fetched_at.tag # "iso" THEN TRUE
    ELSE ~(t - e.fetched_at.t > ttl)

is_expired_inclusive(e, ttl, t) ==
    IF e.fetched_at.tag # "iso" THEN TRUE
    ELSE t - e.fetched_at.t >= ttl

is_expired(e, ttl, t) ==
    IF e.fetched_at.tag # "iso" THEN TRUE
    ELSE t - e.fetched_at.t > ttl

\* save_cache(cache_dir, cache_key, entry): the file it writes.
save_cache_no_hash(e) == ObjectFile(e)

save_cache(e) ==
    ObjectFile(IF e.content # NoText
               THEN [e EXCEPT !.content_hash = _content_hash(e.content)]
               ELSE e)


\* ------------------------------------------------------------------ universes
BatchUrls == {Url("https", "example.com", "/a"), Url("http", "localhost", "/secret")}

\* What the archive may name as its closest snapshot.
SnapshotUrls ==
    {Url("http", "web.archive.org", "/web/2024/a"), Url("http", "10.0.0.1", "/internal")}

\* URLs handed to ingest.fetch_url and download_media.
OtherUrls ==
    {Url("https", "example.com", "/x.png"), Url("http", "169.254.169.254", "/latest"),
     Url("ftp", "example.com", "/f"), Url("http", "4000::1", "/r")}

NoUrl == Url("", "", "")
\* The URL whose cache record other programs write and edit before the batch.
CachedUrls == {Url("https", "example.com", "/a")}
Keys == {url_cache_key(u) : u \in BatchUrls}
Batches == SeqsUpTo(BatchUrls, MaxBatch)

\* Resolver states of the batch model.
DnsChoices ==
    {[n \in DomainNames |-> IF n = "example.com" THEN r ELSE PublicDns] :
        r \in {PublicDns, [gaierror |-> FALSE, addrs |-> <<"8.8.8.8", "10.0.0.1">>]}}

\* Entries an earlier run (or a caller of save_cache) hands to save_cache at clock t.
EntryInputs(t) ==
    {Entry(c, NoHash, f, "jina") :
        c \in {NoText} \cup {Text("old", n) : n \in BodyLens},
        f \in {BadStamp, Stamp(t), Stamp(t - ttl_days - 1)}}

TamperKinds ==
    {"content_altered", "content_removed", "hash_altered", "hash_emptied", "hash_removed",
     "garbage", "nondict"}

\* The record after an out-of-band edit of the given kind.
Tampered(f, kind) ==
    CASE kind = "garbage" -> GarbageFile
      [] kind = "nondict" -> NonDictFile
      [] kind = "content_altered" ->
            ObjectFile([f.entry EXCEPT !.content = Text("forged", 12)])
      [] kind = "content_removed" -> ObjectFile([f.entry EXCEPT !.content = NoText])
      [] kind = "hash_altered" ->
            ObjectFile([f.entry EXCEPT !.content_hash = _content_hash(Text("forged", 12))])
      [] kind = "hash_emptied" -> ObjectFile([f.entry EXCEPT !.content_hash = EmptyHash])
      [] kind = "hash_removed" -> ObjectFile([f.entry EXCEPT !.content_hash = NoHash])

\* ------------------------------------------------------------ results, events
NoRet == [ok |-> FALSE, content |-> NoText, method |-> "", exc |-> "", msg |-> ""]
Returned(c, m) == [ok |-> TRUE, content |-> c, method |-> m, exc |-> "", msg |-> ""]
Raised(exc, msg) == [ok |-> FALSE, content |-> NoText, method |-> "", exc |-> exc, msg |-> msg]

\* Events of a retrieval: a validation, a request sent, the response to it.
Validation(r, u) ==
    [ev |-> "validate", kind |-> "", url |-> u, res |-> IF r.raises = "none" THEN "ok" ELSE "reject"]
Request(kind, u) == [ev |-> "request", kind |-> kind, url |-> u, res |-> ""]
Response(kind, u, res) == [ev |-> "response", kind |-> kind, url |-> u, res |-> res]

\* Exceptions of requests that are ValueError subclasses (InvalidHeader, InvalidURL).
IsValueError(exc) == exc \in {"ValueError", "InvalidHeader"}

FetchResult(n, url, c, m, hit, at) ==
    [idx |-> n, url |-> url, content |-> c, fetch_method |-> m, cache_hit |-> hit, fetched_at |-> at]
FetchFailure(n, url, err) ==
    [idx |-> n, url |-> url, error |-> err, attempts |-> <<"jina", "wayback">>]

\* ------------------------------------------------------------------- initial
InitBatch ==
    /\ store = [k \in Keys |-> MissingFile]
    /\ now = 1
    /\ nsetup = 0
    /\ pc = "idle"
    /\ urls = <<>>
    /\ i = 1
    /\ fetched = <<>>
    /\ failed = <<>>
    /\ last_fetch_time = 0
    /\ fpc = "none"
    /\ via = "none"
    /\ jurl = NoUrl
    /\ reqlog = <<>>
    /\ fret = NoRet
    /\ seen = <<>>
    /\ invoked = {}
    /\ call_prev = -1
    /\ call_start = -1
    /\ net_end = -1
    /\ written = [k \in Keys |-> [entry |-> NoEntry, file |-> MissingFile]]

\* The programs modelled apart from the batch have not been started.
InitDedup ==
    /\ d_pc = "in"
    /\ d_in = <<>>
    /\ d_out = <<>>
    /\ d_again = <<>>

NoObs == [read |-> FALSE, file |-> MissingFile, old |-> MissingFile, new |-> MissingFile,
          result |-> LoadNone]

InitSave ==
    /\ sv_pc = "idle"
    /\ sv_old = MissingFile
    /\ sv_new = MissingFile
    /\ rd_obs = NoObs

\* The Content-Length header: not sent, or its text.
NoLength == [kind |-> "absent", n |-> 0]
EmptyLength == [kind |-> "empty", n |-> 0]
Length(n) == [kind |-> "int", n |-> n]
BadLength == [kind |-> "text", n |-> 0]

InitDownload ==
    /\ dl_pc = "idle"
    /\ dl_url = NoUrl
    /\ dl_name = ""
    /\ dl_declared = NoLength
    /\ dl_body = 0
    /\ dl_total = 0
    /\ dl_files = {}
    /\ dl_before = {}
    /\ dl_out = "none"

InitMedia ==
    /\ m_pc = "idle"
    /\ m_doc = <<>>
    /\ m_under = TRUE
    /\ m_images = <<>>
    /\ m_videos = <<>>
    /\ m_k = 1
    /\ m_downloaded = {}
    /\ m_citations = <<>>
    /\ m_tried = <<>>
    /\ m_rewritten = {}
    /\ m_out = <<>>

InitNote ==
    /\ n_pc = "new"
    /\ n_fm = <<>>
    /\ n_body = <<>>
    /\ n_calls = 0
    /\ n_appends = 0
    /\ n_withurl = 0
    /\ n_listed = {}

InitOther ==
    /\ exp_obs = {}
    /\ InitDedup
    /\ InitSave
    /\ InitDownload
    /\ InitMedia
    /\ InitNote

Init ==
    /\ dns \in DnsChoices
    /\ v_url = NoUrl
    /\ v_out = "none"
    /\ InitBatch
    /\ InitOther

\* --------------------------------------------- out-of-band use of the store
\* save_cache called outside the batch (an earlier run, a test fixture).
PutEntry ==
    /\ pc = "idle"
    /\ nsetup < MaxSetup
    /\ \E u \in CachedUrls, e \in EntryInputs(now) :
          /\ store' = [store EXCEPT ![url_cache_key(u)] = save_cache(e)]
          /\ written' = [written EXCEPT ![url_cache_key(u)] = [entry |-> e, file |-> save_cache(e)]]
    /\ nsetup' = nsetup + 1
    /\ UNCHANGED <<dns, varsValidate, varsOther, now, pc, urls, i, fetched, failed, last_fetch_time,
                   fpc, via, jurl, reqlog, fret, seen, invoked, call_prev, call_start, net_end>>

\* Another program edits or corrupts a record.
Tamper ==
    /\ pc = "idle"
    /\ nsetup < MaxSetup
    /\ \E u \in CachedUrls, kind \in TamperKinds :
          /\ store[url_cache_key(u)].kind = "object"
          /\ store' = [store EXCEPT ![url_cache_key(u)] = Tampered(@, kind)]
    /\ nsetup' = nsetup + 1
    /\ UNCHANGED <<dns, varsValidate, varsOther, now, pc, urls, i, fetched, failed, last_fetch_time,
                   fpc, via, jurl, reqlog, fret, seen, invoked, call_prev, call_start, net_end>>
    /\ UNCHANGED written


\* -------------------------------------------------------------- process_urls
\* main: process_urls(urls, cache_dir, ttl_days, jina_api_key) is called.
StartBatch ==
    /\ pc = "idle"
    /\ \E q \in Batches : urls' = q
    /\ pc' = "loop"
    /\ i' = 1
    /\ fetched' = <<>>
    /\ failed' = <<>>
    /\ last_fetch_time' = 0
    /\ UNCHANGED <<dns, varsValidate, varsOther, store, now, nsetup, fpc, via, jurl, reqlog, fret,
                   seen, invoked, call_prev, call_start, net_end>>
    /\ UNCHANGED written

\* What the head of the loop body reads for the current item.
CurUrl == urls[i]
CurFile == store[url_cache_key(CurUrl)]
CurLoad == load_cache(CurFile)
AtItem == pc = "loop" /\ i <= Len(urls)

\* The test of the cache-hit branch.
IsHit(r, t) == r.raises = "none" /\ ~r.none /\ ~is_expired(r.entry, ttl_days, t)

\* cached.get("fetch_method", "cached")
MethodOrCached(e) == IF e.fetch_method = "<absent>" THEN "cached" ELSE e.fetch_method

\* The loop body raises outside its try block: entry.get on a non-dict in
\* load_cache, or cached["content"] on a record without that key.
CacheRaise ==
    /\ AtItem
    /\ \/ CurLoad.raises # "none"
       \/ IsHit(CurLoad, now) /\ CurLoad.entry.content = NoText
    /\ seen' = Append(seen, [file |-> CurFile, t |-> now])
    /\ pc' = "raised"
    /\ UNCHANGED <<dns, varsValidate, varsOther, store, now, nsetup, urls, i, fetched, failed,
                   last_fetch_time, fpc, via, jurl, reqlog, fret, invoked, call_prev,
                   call_start, net_end>>
    /\ UNCHANGED written

\* The cache-hit branch with the record saved again under a fresh timestamp.
CacheHitRefreshing ==
    /\ AtItem
    /\ IsHit(CurLoad, now)
    /\ CurLoad.entry.content # NoText
    /\ LET cached == CurLoad.entry
           truncated == Prefix(cached.content, MAX_CONTENT_CHARS)
       IN  /\ fetched' = Append(fetched, FetchResult(i, CurUrl, truncated, MethodOrCached(cached),
                                                     TRUE, cached.fetched_at))
           /\ store' = [store EXCEPT ![url_cache_key(CurUrl)] =
                            save_cache([cached EXCEPT !.fetched_at = Stamp(now)])]
    /\ seen' = Append(seen, [file |-> CurFile, t |-> now])
    /\ i' = i + 1
    /\ UNCHANGED <<dns, varsValidate, varsOther, now, nsetup, pc, urls, failed, last_fetch_time,
                   fpc, via, jurl, reqlog, fret, invoked, call_prev, call_start, net_end>>
    /\ UNCHANGED written

\* The cache-hit branch: emit the cached entry and continue with the next item.
CacheHit ==
    /\ AtItem
    /\ IsHit(CurLoad, now)
    /\ CurLoad.entry.content # NoText
    /\ LET cached == CurLoad.entry
           truncated == Prefix(cached.content, MAX_CONTENT_CHARS)
       IN  fetched' = Append(fetched, FetchResult(i, CurUrl, truncated, MethodOrCached(cached),
                                                  TRUE, cached.fetched_at))
    /\ seen' = Append(seen, [file |-> CurFile, t |-> now])
    /\ i' = i + 1
    /\ UNCHANGED <<dns, varsValidate, varsOther, store, now, nsetup, pc, urls, failed, last_fetch_time,
                   fpc, via, jurl, reqlog, fret, invoked, call_prev, call_start, net_end>>
    /\ UNCHANGED written

\* time.sleep(fetch_delay - elapsed) when the limiter asks for it, else 0.
SleepFor(t, last) ==
    IF t - last < fetch_delay /\ last > 0 THEN fetch_delay - (t - last) ELSE 0

\* Cache miss or expired: the rate limiter, then the call of fetch_url.
CacheMiss ==
    /\ AtItem
    /\ CurLoad.raises = "none"
    /\ ~IsHit(CurLoad, now)
    /\ seen' = Append(seen, [file |-> CurFile, t |-> now])
    /\ now' = now + SleepFor(now, last_fetch_time)
    /\ pc' = "fetch"
    /\ fpc' = "jina_validate"
    /\ via' = "jina"
    /\ jurl' = CurUrl
    /\ reqlog' = <<>>
    /\ fret' = NoRet
    /\ invoked' = invoked \cup {i}
    /\ call_prev' = net_end
    /\ call_start' = now'
    /\ UNCHANGED <<dns, varsValidate, varsOther, store, nsetup, urls, i, fetched, failed,
                   last_fetch_time, net_end>>
    /\ UNCHANGED written

\* ----------------------------------------------------------------- fetch_url
\* The except clauses of fetch_url for an exception raised in try block v.
HandlerNoReraise(v, exc) ==
    IF v = "jina" THEN "fallback" ELSE "all_failed"

HandlerFallbackAgain(v, exc) ==
    IF v = "jina"
    THEN IF IsValueError(exc) THEN "reraise" ELSE "fallback"
    ELSE "fallback"

Handler(v, exc) ==
    IF v = "jina"
    THEN IF IsValueError(exc) THEN "reraise" ELSE "fallback"
    ELSE "all_failed"

\* An exception exc leaves fetch_via_jina / fetch_via_wayback inside fetch_url.
Throw(exc, msg) ==
    LET h == Handler(via, exc)
    IN  /\ fpc' = IF h = "fallback" THEN "wayback_lookup" ELSE "raised"
        /\ via' = IF h = "fallback" THEN "wayback" ELSE via
        /\ fret' = CASE h = "reraise" -> Raised(exc, msg)
                     [] h = "fallback" -> fret
                     [] h = "all_failed" -> Raised("RuntimeError", "All fetch methods failed")
        /\ UNCHANGED jurl

\* Whether fetch_via_jina goes on to its request after validate_url's outcome r.
PassesAlways(r) == TRUE
Passes(r) == r.raises = "none"

\* fetch_via_jina, line 159: validate_url(url).
JinaValidate ==
    /\ pc = "fetch"
    /\ fpc = "jina_validate"
    /\ LET r == validate_url(jurl, dns)
       IN  /\ reqlog' = Append(reqlog, Validation(r, jurl))
           /\ IF Passes(r)
              THEN fpc' = "jina_request" /\ UNCHANGED <<via, fret, jurl>>
              ELSE Throw("ValueError", r.msg)
    /\ UNCHANGED <<dns, varsValidate, varsOther, store, now, nsetup, pc, urls, i, fetched, failed,
                   last_fetch_time, seen, invoked, call_prev, call_start, net_end>>
    /\ UNCHANGED written

\* Clock ticks a reader request may take (requests.get with timeout=30); the
\* clock is coarse, and the request for a snapshot stays within one tick.
Durations(v) == IF v = "jina" THEN {0, 1} ELSE {0}

\* fetch_via_jina, lines 160-172: the reader request and its response.
JinaRequest ==
    /\ pc = "fetch"
    /\ fpc = "jina_request"
    /\ \E d \in Durations(via) : now' = now + d
    /\ \/ \E n \in BodyLens :
            /\ reqlog' = reqlog \o <<Request("reader", jurl), Response("reader", jurl, "ok")>>
            /\ fret' = Returned(Text(IF via = "jina" THEN "live" ELSE "archived", n), via)
            /\ fpc' = "returned"
            /\ UNCHANGED <<via, jurl>>
       \/ \E exc \in {"RequestException", "InvalidHeader"} :
            /\ reqlog' = reqlog \o <<Request("reader", jurl), Response("reader", jurl, exc)>>
            /\ Throw(exc, "request failed")
    /\ UNCHANGED <<dns, varsValidate, varsOther, store, nsetup, pc, urls, i, fetched, failed,
                   last_fetch_time, seen, invoked, call_prev, call_start, net_end>>
    /\ UNCHANGED written

\* What the availability API answers: no JSON at all, or its closest snapshot.
LookupAnswers == {"RequestException", "no_closest", "status_404", "status_200"}

\* not (not closest or closest.get("status") != "200")
SnapshotUsableAnyStatus(answer) == answer \in {"status_404", "status_200"}
SnapshotUsable(answer) == answer = "status_200"

\* fetch_via_wayback, lines 180-187: the availability lookup for the target.
WaybackLookup ==
    /\ pc = "fetch"
    /\ fpc = "wayback_lookup"
    /\ \E answer \in LookupAnswers, s \in SnapshotUrls :
          /\ reqlog' = reqlog \o <<Request("lookup", CurUrl), Response("lookup", CurUrl, answer)>>
          /\ IF answer = "RequestException"
             THEN Throw("RequestException", "lookup failed")
             ELSE IF SnapshotUsable(answer)
             THEN /\ jurl' = s
                  /\ fpc' = "jina_validate"
                  /\ UNCHANGED <<via, fret>>
             ELSE Throw("ValueError", "No Wayback snapshot available")
    /\ UNCHANGED <<dns, varsValidate, varsOther, store, now, nsetup, pc, urls, i, fetched, failed,
                   last_fetch_time, seen, invoked, call_prev, call_start, net_end>>
    /\ UNCHANGED written

\* ------------------------------------------------- process_urls, after the call
HasRequest(log) == \E n \in 1..Len(log) : log[n].ev = "request"

\* What write_text leaves behind: the new record, or on OSError the old file
\* or a truncated one.
SaveOutcomes == {"written", "OSError_untouched", "OSError_partial"}

\* Lines 256-276: fetch_url returned; record the time, truncate, save, emit.
FetchReturned ==
    /\ pc = "fetch"
    /\ fpc = "returned"
    /\ last_fetch_time' = now
    /\ LET content == Prefix(fret.content, MAX_CONTENT_CHARS)
           key == url_cache_key(CurUrl)
           entry == Entry(content, NoHash, Stamp(now), fret.method)
       IN  \E out \in SaveOutcomes :
             IF out = "written"
             THEN /\ store' = [store EXCEPT ![key] = save_cache(entry)]
                  /\ written' = [written EXCEPT ![key] = [entry |-> entry, file |-> save_cache(entry)]]
                  /\ fetched' = Append(fetched, FetchResult(i, CurUrl, content, fret.method,
                                                            FALSE, Stamp(now)))
                  /\ UNCHANGED failed
             ELSE /\ store' = IF out = "OSError_partial"
                              THEN [store EXCEPT ![key] = GarbageFile]
                              ELSE store
                  /\ failed' = Append(failed, FetchFailure(i, CurUrl, "OSError"))
                  /\ UNCHANGED <<fetched, written>>
    /\ net_end' = now
    /\ i' = i + 1
    /\ pc' = "loop"
    /\ fpc' = "none" /\ via' = "none" /\ jurl' = NoUrl /\ reqlog' = <<>> /\ fret' = NoRet
    /\ UNCHANGED <<dns, varsValidate, varsOther, now, nsetup, urls, seen, invoked, call_prev, call_start>>

\* Lines 278-284 without the append: the exception is swallowed.
FetchRaisedSilent ==
    /\ pc = "fetch"
    /\ fpc = "raised"
    /\ net_end' = IF HasRequest(reqlog) THEN now ELSE net_end
    /\ i' = i + 1
    /\ pc' = "loop"
    /\ fpc' = "none" /\ via' = "none" /\ jurl' = NoUrl /\ reqlog' = <<>> /\ fret' = NoRet
    /\ UNCHANGED <<dns, varsValidate, varsOther, store, now, nsetup, urls, fetched, failed,
                   last_fetch_time, seen, invoked, call_prev, call_start, written>>

\* Lines 278-284 with the key's file removed as well.
FetchRaisedEvicting ==
    /\ pc = "fetch"
    /\ fpc = "raised"
    /\ failed' = Append(failed, FetchFailure(i, CurUrl, fret.msg))
    /\ store' = [store EXCEPT ![url_cache_key(CurUrl)] = MissingFile]
    /\ net_end' = IF HasRequest(reqlog) THEN now ELSE net_end
    /\ i' = i + 1
    /\ pc' = "loop"
    /\ fpc' = "none" /\ via' = "none" /\ jurl' = NoUrl /\ reqlog' = <<>> /\ fret' = NoRet
    /\ UNCHANGED <<dns, varsValidate, varsOther, now, nsetup, urls, fetched, last_fetch_time,
                   seen, invoked, call_prev, call_start>>
    /\ UNCHANGED written

\* Lines 278-284: fetch_url raised; emit the failure.
FetchRaised ==
    /\ pc = "fetch"
    /\ fpc = "raised"
    /\ failed' = Append(failed, FetchFailure(i, CurUrl, fret.msg))
    /\ net_end' = IF HasRequest(reqlog) THEN now ELSE net_end
    /\ i' = i + 1
    /\ pc' = "loop"
    /\ fpc' = "none" /\ via' = "none" /\ jurl' = NoUrl /\ reqlog' = <<>> /\ fret' = NoRet
    /\ UNCHANGED <<dns, varsValidate, varsOther, store, now, nsetup, urls, fetched, last_fetch_time,
                   seen, invoked, call_prev, call_start>>
    /\ UNCHANGED written

\* Line 286: return fetched, failed.
Return ==
    /\ pc = "loop"
    /\ i > Len(urls)
    /\ pc' = "done"
    /\ UNCHANGED <<dns, varsValidate, varsOther, store, now, nsetup, urls, i, fetched, failed,
                   last_fetch_time, fpc, via, jurl, reqlog, fret, seen, invoked,
                   call_prev, call_start, net_end>>
    /\ UNCHANGED written

\* ------------------------------------- ingest.fetch_url and download_media
\* ingest.fetch_url(url) or download_media(url, dest_dir) is called.
StartOther ==
    /\ pc = "idle"
    /\ \E u \in OtherUrls, prog \in {"ingest", "download"} :
          /\ pc' = prog
          /\ jurl' = u
    /\ fpc' = "validate"
    /\ reqlog' = <<>>
    /\ fret' = NoRet
    /\ UNCHANGED <<dns, varsValidate, varsOther, store, now, nsetup, urls, i, fetched, failed,
                   last_fetch_time, via, seen, invoked, call_prev, call_start, net_end>>
    /\ UNCHANGED written

\* The except ImportError branch of _validate_media_url: the inline check.
InlineValidate(url, d) ==
    IF url.scheme \notin {"http", "https"} THEN Raise("ValueError", "Blocked URL scheme")
    ELSE IF url.host \in {"localhost", "localhost.localdomain"}
         THEN Raise("ValueError", "Blocked hostname")
    ELSE IF IsIpLiteral(url.host)
         THEN IF AddrFlags(url.host) \cap {"is_private", "is_loopback", "is_reserved"} # {}
              THEN Raise("ValueError", "Blocked private IP")
              ELSE Ok
    ELSE IF d[url.host].gaierror THEN Ok
         ELSE IF \E n \in 1..Len(d[url.host].addrs) :
                    AddrFlags(d[url.host].addrs[n]) \cap {"is_private", "is_loopback", "is_reserved"} # {}
              THEN Raise("ValueError", "Blocked: resolves to private IP")
              ELSE Ok

\* _validate_media_url(url); importable: whether fetch_and_clean can be imported.
_validate_media_url(url, d, importable) ==
    IF importable THEN validate_url(url, d) ELSE InlineValidate(url, d)

\* ingest.fetch_url line 89 / download_media line 267: the validation.
OtherValidate ==
    /\ pc \in {"ingest", "download"}
    /\ fpc = "validate"
    /\ \E importable \in BOOLEAN :
         LET r == IF pc = "ingest" THEN validate_url(jurl, dns)
                  ELSE _validate_media_url(jurl, dns, importable)
         IN  /\ reqlog' = Append(reqlog, Validation(r, jurl))
             /\ IF Passes(r)
                THEN fpc' = "request" /\ UNCHANGED fret
                ELSE fpc' = "raised" /\ fret' = Raised("ValueError", r.msg)
    /\ UNCHANGED <<dns, varsValidate, varsOther, store, now, nsetup, pc, urls, i, fetched, failed,
                   last_fetch_time, via, jurl, seen, invoked, call_prev, call_start, net_end>>
    /\ UNCHANGED written

\* ingest.fetch_url lines 90-93 / download_media lines 280-281: the request.
OtherRequest ==
    /\ pc \in {"ingest", "download"}
    /\ fpc = "request"
    /\ LET kind == IF pc = "ingest" THEN "reader" ELSE "download"
       IN  \/ /\ reqlog' = reqlog \o <<Request(kind, jurl), Response(kind, jurl, "ok")>>
              /\ fret' = Returned(Text("live", 12), kind)
              /\ fpc' = "returned"
           \/ /\ reqlog' = reqlog \o <<Request(kind, jurl), Response(kind, jurl, "RequestException")>>
              /\ fret' = Raised("RequestException", "request failed")
              /\ fpc' = "raised"
    /\ UNCHANGED <<dns, varsValidate, varsOther, store, now, nsetup, pc, urls, i, fetched, failed,
                   last_fetch_time, via, jurl, seen, invoked, call_prev, call_start, net_end>>
    /\ UNCHANGED written

\* ------------------------------------------------------------ specifications
Next ==
    \/ PutEntry
    \/ Tamper
    \/ StartBatch
    \/ CacheRaise
    \/ CacheHit
    \/ CacheMiss
    \/ JinaValidate
    \/ JinaRequest
    \/ WaybackLookup
    \/ FetchReturned
    \/ FetchRaised
    \/ Return
    \/ StartOther
    \/ OtherValidate
    \/ OtherRequest

Spec == Init /\ [][Next]_vars

\* ----------------------------------------------------- fetch_url on its own
\* URLs handed to fetch_url, and the resolver's answers for their host.
FetchUrls ==
    {Url("https", "example.com", "/a"), Url("http", "localhost", "/secret"),
     Url("http", "8.8.8.8", "/p"), Url("file", "example.com", "/etc")}

InitFetch ==
    /\ dns \in {[n \in DomainNames |-> IF n = "example.com" THEN r ELSE PublicDns] :
                    r \in DnsResults}
    /\ v_url = NoUrl
    /\ v_out = "none"
    /\ store = [k \in Keys |-> MissingFile]
    /\ now = 1
    /\ nsetup = 0
    /\ pc = "idle"
    /\ urls \in {<<u>> : u \in FetchUrls}
    /\ i = 1
    /\ fetched = <<>>
    /\ failed = <<>>
    /\ last_fetch_time = 0
    /\ fpc = "none"
    /\ via = "none"
    /\ jurl = NoUrl
    /\ reqlog = <<>>
    /\ fret = NoRet
    /\ seen = <<>>
    /\ invoked = {}
    /\ call_prev = -1
    /\ call_start = -1
    /\ net_end = -1
    /\ written = [k \in Keys |-> [entry |-> NoEntry, file |-> MissingFile]]
    /\ InitOther

\* fetch_url(url, jina_api_key) is called: control enters its first try block.
FetchUrlCall ==
    /\ pc = "idle"
    /\ pc' = "fetch"
    /\ fpc' = "jina_validate"
    /\ via' = "jina"
    /\ jurl' = urls[i]
    /\ reqlog' = <<>>
    /\ fret' = NoRet
    /\ UNCHANGED <<dns, varsValidate, varsOther, store, now, nsetup, urls, i, fetched, failed,
                   last_fetch_time, seen, invoked, call_prev, call_start, net_end, written>>

NextFetch ==
    \/ FetchUrlCall
    \/ JinaValidate
    \/ JinaRequest
    \/ WaybackLookup

\* A sequential program: the statement fetch_url stands at is executed, and
\* every request carries a timeout, so it answers or raises.
SpecFetch ==
    /\ InitFetch
    /\ [][NextFetch]_vars
    /\ WF_vars(JinaValidate \/ JinaRequest \/ WaybackLookup)

\* validate_url as a function of the URL and the resolver's answer.
ValidateUrls == {Url(s, h, "/") : s \in Schemes, h \in Hosts}

InitValidate ==
    /\ dns \in {[n \in DomainNames |-> IF n = "example.com" THEN r ELSE PublicDns] :
                    r \in DnsResults}
    /\ v_url \in ValidateUrls
    /\ v_out = "none"
    /\ InitBatch
    /\ InitOther

Validate ==
    /\ v_out = "none"
    /\ v_out' = IF validate_url(v_url, dns).raises = "none"
                 THEN "accepted"
                 ELSE validate_url(v_url, dns).raises
    /\ UNCHANGED <<dns, v_url, varsBatch, varsOther>>

SpecValidate == InitValidate /\ [][Validate]_vars

\* ------------------------------------------------ is_expired as time passes
\* The key under which the entry under test is saved.
ExpiryKey == url_cache_key(Url("https", "example.com", "/a"))

\* Entries handed to save_cache at clock t: stamped now (as process_urls builds
\* them), stamped ahead of the clock, with an unparsable stamp, or with none.
ExpiryEntries(t) ==
    {Entry(Text("old", 12), NoHash, f, "jina") : f \in {Stamp(t), Stamp(t + 1), BadStamp, NoStamp}}

\* save_cache(cache_dir, key, entry), once, at any clock value.
ExpirySave ==
    /\ store[ExpiryKey].kind = "missing"
    /\ \E e \in ExpiryEntries(now) :
          /\ store' = [store EXCEPT ![ExpiryKey] = save_cache(e)]
          /\ written' = [written EXCEPT ![ExpiryKey] = [entry |-> e, file |-> save_cache(e)]]
    /\ UNCHANGED <<dns, varsValidate, varsOther, now, nsetup, pc, urls, i, fetched, failed,
                   last_fetch_time, fpc, via, jurl, reqlog, fret, seen, invoked, call_prev,
                   call_start, net_end>>

\* Time passes.
ExpiryTick ==
    /\ now < MaxClock
    /\ now' = now + 1
    /\ UNCHANGED <<dns, varsValidate, varsOther, store, nsetup, pc, urls, i, fetched, failed,
                   last_fetch_time, fpc, via, jurl, reqlog, fret, seen, invoked, call_prev,
                   call_start, net_end, written>>

\* is_expired(load_cache(cache_dir, key), ttl_days) is evaluated.
ExpiryCheck ==
    /\ LET r == load_cache(store[ExpiryKey])
       IN  /\ r.raises = "none"
           /\ ~r.none
           /\ exp_obs' = exp_obs \cup
                  {[t |-> now, entry |-> r.entry, expired |-> is_expired(r.entry, ttl_days, now)]}
    /\ UNCHANGED <<dns, varsValidate, varsBatch, varsDedup, varsSave, varsDownload, varsMedia,
                   varsNote>>

NextExpiry ==
    \/ ExpirySave
    \/ ExpiryTick
    \/ ExpiryCheck

SpecExpiry == Init /\ [][NextExpiry]_vars


\* ------------------------------- process_urls served from the cache, over time
\* Runs of process_urls in which the requests are answered by the cache hit
\* branch, while the clock advances between them and the record is saved once,
\* at any moment, by an earlier run.
NextHits ==
    \/ ExpirySave
    \/ ExpiryTick
    \/ StartBatch
    \/ CacheHit
    \/ Return

SpecHits == Init /\ [][NextHits]_vars


\* ------------------------------------------- normalize_url, deduplicate_urls
\* A URL string is a sequence of characters; str.lower on one character.
Lower(c) == CASE c = "A" -> "a" [] c = "B" -> "b" [] OTHER -> c

\* url.rstrip("/"): every trailing slash goes.
RECURSIVE RStripSlash(_)
RStripSlash(u) ==
    IF u # <<>> /\ u[Len(u)] = "/" THEN RStripSlash(SubSeq(u, 1, Len(u) - 1)) ELSE u

normalize_url_case_sensitive(u) == RStripSlash(u)

normalize_url(u) == [n \in 1..Len(RStripSlash(u)) |-> Lower(RStripSlash(u)[n])]

\* The for loop of deduplicate_urls from item k on, with its set and its result.
RECURSIVE DedupLoop(_, _, _, _)
DedupLoop(items, k, keys, result) ==
    IF k > Len(items) THEN result
    ELSE LET key == normalize_url(items[k].url)
         IN  IF key \notin keys
             THEN DedupLoop(items, k + 1, keys \cup {key}, Append(result, items[k]))
             ELSE DedupLoop(items, k + 1, keys, result)

deduplicate_urls(items) == DedupLoop(items, 1, {}, <<>>)

\* URL strings that differ in case and in trailing slashes, and the items
\* (dicts with a url and whatever else the caller put there) that carry them.
DedupUrls == {<<"a">>, <<"A">>, <<"a", "/">>, <<"a", "/", "/">>, <<"b">>, <<"B", "/">>}
DedupItems == {[url |-> u, title |-> t] : u \in DedupUrls, t \in {"t1", "t2"}}

InitDedupInputs ==
    /\ dns \in DnsChoices
    /\ v_url = NoUrl
    /\ v_out = "none"
    /\ InitBatch
    /\ exp_obs = {}
    /\ d_pc = "in"
    /\ d_in \in SeqsUpTo(DedupItems, MaxList)
    /\ d_out = <<>>
    /\ d_again = <<>>
    /\ InitSave
    /\ InitDownload
    /\ InitMedia
    /\ InitNote

\* main, line 310: urls = deduplicate_urls(selected_urls).
Dedup ==
    /\ d_pc = "in"
    /\ d_out' = deduplicate_urls(d_in)
    /\ d_pc' = "once"
    /\ UNCHANGED <<dns, varsValidate, varsBatch, varsExpiry, varsSave, varsDownload, varsMedia,
                   varsNote, d_in, d_again>>

\* deduplicate_urls applied to its own result.
DedupAgain ==
    /\ d_pc = "once"
    /\ d_again' = deduplicate_urls(d_out)
    /\ d_pc' = "twice"
    /\ UNCHANGED <<dns, varsValidate, varsBatch, varsExpiry, varsSave, varsDownload, varsMedia,
                   varsNote, d_in, d_out>>

NextDedup ==
    \/ Dedup
    \/ DedupAgain

SpecDedup == InitDedupInputs /\ [][NextDedup]_vars


\* --------------------------------------- save_cache with a concurrent reader
\* The key one process saves under while another loads it.
SaveKey == url_cache_key(Url("https", "example.com", "/a"))

\* Batch variables that save_cache and load_cache leave alone.
varsBatchButStore ==
    <<now, pc, urls, i, fetched, failed, last_fetch_time, fpc, via, jurl, reqlog, fret,
      seen, invoked, call_prev, call_start, net_end>>

\* save_cache up to open(cache_file, "w") inside write_text: the hash is set,
\* the JSON text is built, and opening the file for writing truncates it.
SaveOpen ==
    /\ sv_pc = "idle"
    /\ nsetup < MaxSetup
    /\ \E e \in EntryInputs(now) :
          /\ sv_new' = save_cache(e)
          /\ written' = [written EXCEPT ![SaveKey] = [entry |-> e, file |-> save_cache(e)]]
    /\ sv_old' = store[SaveKey]
    /\ store' = [store EXCEPT ![SaveKey] = EmptyFile]
    /\ sv_pc' = "opened"
    /\ nsetup' = nsetup + 1
    /\ UNCHANGED <<dns, varsValidate, varsBatchButStore, varsExpiry, varsDedup, varsDownload, varsMedia,
                   varsNote, rd_obs>>

\* write_text: the whole text reaches the file in one write; save_cache returns.
SaveWriteAll ==
    /\ sv_pc = "opened"
    /\ store' = [store EXCEPT ![SaveKey] = sv_new]
    /\ sv_pc' = "idle"
    /\ UNCHANGED <<dns, varsValidate, varsBatchButStore, nsetup, written, varsExpiry, varsDedup,
                   varsDownload, varsMedia, varsNote, sv_old, sv_new, rd_obs>>

\* write_text: the head of the text reaches the file, the rest is still buffered.
SaveWritePart ==
    /\ sv_pc = "opened"
    /\ store' = [store EXCEPT ![SaveKey] = PartialFile]
    /\ sv_pc' = "partial"
    /\ UNCHANGED <<dns, varsValidate, varsBatchButStore, nsetup, written, varsExpiry, varsDedup,
                   varsDownload, varsMedia, varsNote, sv_old, sv_new, rd_obs>>

\* write_text: the rest is written and the file is closed; save_cache returns.
SaveWriteRest ==
    /\ sv_pc = "partial"
    /\ store' = [store EXCEPT ![SaveKey] = sv_new]
    /\ sv_pc' = "idle"
    /\ UNCHANGED <<dns, varsValidate, varsBatchButStore, nsetup, written, varsExpiry, varsDedup,
                   varsDownload, varsMedia, varsNote, sv_old, sv_new, rd_obs>>

\* Another process calls load_cache for the same key, at any moment.
ReaderLoad ==
    /\ rd_obs' = [read |-> TRUE, file |-> store[SaveKey],
                  old |-> IF sv_pc = "idle" THEN store[SaveKey] ELSE sv_old,
                  new |-> IF sv_pc = "idle" THEN store[SaveKey] ELSE sv_new,
                  result |-> load_cache(store[SaveKey])]
    /\ UNCHANGED <<dns, varsValidate, varsBatch, varsExpiry, varsDedup, varsDownload, varsMedia,
                   varsNote, sv_pc, sv_old, sv_new>>

NextSave ==
    \/ SaveOpen
    \/ SaveWriteAll
    \/ SaveWritePart
    \/ SaveWriteRest
    \/ ReaderLoad

SpecSave == Init /\ [][NextSave]_vars


\* ------------------------------------------------------------ download_media
\* URLs handed to download_media, and the filename argument (None, or the
\* name download_youtube_thumbnail passes).
DownloadUrls == {Url("https", "example.com", "/x.png"), Url("http", "169.254.169.254", "/latest")}
DownloadNames == {"", "vid-thumbnail.jpg"}

\* What the server declares and what it sends.
DeclaredLengths ==
    {NoLength, EmptyLength, BadLength, Length(100), Length(MAX_DOWNLOAD_SIZE),
     Length(MAX_DOWNLOAD_SIZE + 1)}
BodySizes == {0, 15, MAX_DOWNLOAD_SIZE, MAX_DOWNLOAD_SIZE + 1}

\* A file of dest_dir.
MediaFile(name, size) == [name |-> name, size |-> size]

\* _safe_filename(url, data): the name when no filename is given.
_safe_filename(url, size) == IF size > 0 THEN "hash-x.png" ELSE "x.png"

InitDownloadInputs ==
    /\ dns = [n \in DomainNames |-> PublicDns]
    /\ v_url = NoUrl
    /\ v_out = "none"
    /\ InitBatch
    /\ exp_obs = {}
    /\ InitDedup
    /\ InitSave
    /\ InitMedia
    /\ InitNote
    /\ dl_pc = "idle"
    /\ dl_url = NoUrl
    /\ dl_name = ""
    /\ dl_declared = NoLength
    /\ dl_body = 0
    /\ dl_total = 0
    /\ dl_files \in {{}, {MediaFile("vid-thumbnail.jpg", 15)}}
    /\ dl_before = dl_files
    /\ dl_out = "none"

varsNotDownload ==
    <<dns, varsValidate, varsBatch, varsExpiry, varsDedup, varsSave, varsMedia, varsNote>>

\* download_media(url, dest_dir, filename) is called; the server's answer is fixed.
DownloadStart ==
    /\ dl_pc = "idle"
    /\ \E u \in DownloadUrls, f \in DownloadNames, d \in DeclaredLengths, b \in BodySizes :
          /\ dl_url' = u
          /\ dl_name' = f
          /\ dl_declared' = d
          /\ dl_body' = b
    /\ dl_pc' = "validate"
    /\ UNCHANGED <<varsNotDownload, dl_total, dl_files, dl_before, dl_out>>

\* Line 277: _validate_media_url(url).
DownloadValidate ==
    /\ dl_pc = "validate"
    /\ \E importable \in BOOLEAN :
          IF Passes(_validate_media_url(dl_url, dns, importable))
          THEN dl_pc' = "request" /\ UNCHANGED dl_out
          ELSE dl_pc' = "done" /\ dl_out' = "ValueError"
    /\ UNCHANGED <<varsNotDownload, dl_url, dl_name, dl_declared, dl_body, dl_total, dl_files,
                   dl_before>>

\* Lines 278-281: mkdir, requests.get(stream=True), raise_for_status.
DownloadRequest ==
    /\ dl_pc = "request"
    /\ \/ dl_pc' = "header" /\ UNCHANGED dl_out
       \/ dl_pc' = "done" /\ dl_out' = "RequestException"
    /\ UNCHANGED <<varsNotDownload, dl_url, dl_name, dl_declared, dl_body, dl_total, dl_files,
                   dl_before>>

\* content_length and int(content_length) > MAX_DOWNLOAD_SIZE
DeclaredTooLargeNever(d) == FALSE
DeclaredTooLarge(d) == d.kind = "int" /\ d.n > MAX_DOWNLOAD_SIZE

\* Lines 284-286: the check of the declared length; int() of other text raises.
DownloadHeader ==
    /\ dl_pc = "header"
    /\ IF dl_declared.kind = "text"
       THEN dl_pc' = "done" /\ dl_out' = "ValueError"
       ELSE IF DeclaredTooLarge(dl_declared)
       THEN dl_pc' = "done" /\ dl_out' = "RuntimeError"
       ELSE dl_pc' = "stream" /\ UNCHANGED dl_out
    /\ UNCHANGED <<varsNotDownload, dl_url, dl_name, dl_declared, dl_body, dl_total, dl_files,
                   dl_before>>

\* Lines 291-295: one iteration of the loop over iter_content, or its end.
DownloadChunk ==
    /\ dl_pc = "stream"
    /\ IF dl_total = dl_body
       THEN dl_pc' = "write" /\ UNCHANGED <<dl_total, dl_out>>
       ELSE LET total == dl_total + Min(ChunkSize, dl_body - dl_total)
            IN  /\ dl_total' = total
                /\ IF total > MAX_DOWNLOAD_SIZE
                   THEN dl_pc' = "done" /\ dl_out' = "RuntimeError"
                   ELSE UNCHANGED <<dl_pc, dl_out>>
    /\ UNCHANGED <<varsNotDownload, dl_url, dl_name, dl_declared, dl_body, dl_files, dl_before>>

\* Lines 296-303: join, name the file, write_bytes, return.
DownloadWrite ==
    /\ dl_pc = "write"
    /\ LET name == IF dl_name = "" THEN _safe_filename(dl_url, dl_total) ELSE dl_name
       IN  dl_files' = {f \in dl_files : f.name # name} \cup {MediaFile(name, dl_total)}
    /\ dl_pc' = "done"
    /\ dl_out' = "returned"
    /\ UNCHANGED <<varsNotDownload, dl_url, dl_name, dl_declared, dl_body, dl_total, dl_before>>

NextDownload ==
    \/ DownloadStart
    \/ DownloadValidate
    \/ DownloadRequest
    \/ DownloadHeader
    \/ DownloadChunk
    \/ DownloadWrite

SpecDownload == InitDownloadInputs /\ [][NextDownload]_vars


\* ------------------------------------------------ extract_and_download_media
\* The text of a URL as it stands in the markdown: an absolute https URL, a
\* data: URI, a path relative to the page, or text urlparse does not accept.
MediaUrl(form, id) == [form |-> form, id |-> id]

\* A media reference of the document: ![alt](url), <img src="url">, a
\* YouTube link of the watch?v=, the youtu.be/ or the embed/ form (its url
\* field holds the video id), or a plain [text](url).
\* An <img> tag may carry a second attribute whose name ends in src (data-src
\* after src): HTML_IMG_PATTERN is greedy and captures the last of them, and
\* the other URL is still text of the tag.
NoMediaUrl == MediaUrl("none", "")
Ref(kind, url) == [kind |-> kind, url |-> url, other |-> NoMediaUrl]
ImgTag(first, last) == [kind |-> "html_img", url |-> last, other |-> first]

MediaRefs ==
    {Ref("md_image", MediaUrl("https", "a.png")), Ref("md_image", MediaUrl("https", "b.png")),
     Ref("md_image", MediaUrl("data", "d")), Ref("md_image", MediaUrl("relative", "r.png")),
     Ref("md_image", MediaUrl("malformed", "[bad")), Ref("html_img", MediaUrl("https", "a.png")),
     Ref("watch", MediaUrl("https", "v1")), Ref("youtu.be", MediaUrl("https", "v1")),
     Ref("embed", MediaUrl("https", "v2")),
     Ref("link", MediaUrl("https", "a.png")),
     ImgTag(MediaUrl("https", "a.png"), MediaUrl("https", "b.png"))}

\* urlparse(url).scheme, or the ValueError urlparse raises.
UrlScheme(u) ==
    CASE u.form = "https" -> "https"
      [] u.form = "data" -> "data"
      [] u.form = "malformed" -> "ValueError"
      [] OTHER -> ""

\* _is_downloadable_url(url): "yes", "no", or the exception that leaves it.
_is_downloadable_url(u) ==
    IF u.form = "data" THEN "no"
    ELSE IF u.form = "anchor" THEN "no"
    ELSE IF UrlScheme(u) = "ValueError" THEN "ValueError"
    ELSE IF UrlScheme(u) \in {"http", "https"} THEN "yes"
    ELSE "no"

InSeq(x, q) == \E n \in 1..Len(q) : q[n] = x

\* One of the two for loops of extract_image_urls, from reference k on: acc
\* holds the images so far (seen_urls is the set of their URLs).
RECURSIVE ImagePass(_, _, _, _)
ImagePass(doc, kind, k, acc) ==
    IF acc.raises # "none" \/ k > Len(doc) THEN acc
    ELSE IF doc[k].kind # kind \/ InSeq(doc[k].url, acc.list) THEN ImagePass(doc, kind, k + 1, acc)
    ELSE LET d == _is_downloadable_url(doc[k].url)
         IN  CASE d = "yes" -> ImagePass(doc, kind, k + 1, [acc EXCEPT !.list = Append(@, doc[k].url)])
               [] d = "no" -> ImagePass(doc, kind, k + 1, acc)
               [] OTHER -> [acc EXCEPT !.raises = d]

extract_image_urls(doc) ==
    ImagePass(doc, "html_img", 1, ImagePass(doc, "md_image", 1, [raises |-> "none", list |-> <<>>]))

\* extract_youtube_urls: for each pattern, each match whose video id is new.
RECURSIVE VideoPass(_, _, _, _)
VideoPass(doc, kind, k, acc) ==
    IF k > Len(doc) THEN acc
    ELSE IF doc[k].kind # kind \/ InSeq(doc[k].url.id, acc) THEN VideoPass(doc, kind, k + 1, acc)
    ELSE VideoPass(doc, kind, k + 1, Append(acc, doc[k].url.id))

\* The three patterns without the set seen_ids shared between them.
extract_youtube_urls_per_pattern(doc) ==
    VideoPass(doc, "watch", 1, <<>>) \o VideoPass(doc, "youtu.be", 1, <<>>)
        \o VideoPass(doc, "embed", 1, <<>>)

\* The list returned; the URL https://www.youtube.com/watch?v=<id> is written <id>.
extract_youtube_urls(doc) ==
    VideoPass(doc, "embed", 1, VideoPass(doc, "youtu.be", 1, VideoPass(doc, "watch", 1, <<>>)))

\* build_citation(source_url, media_type, local_path)
Citation(url, type, path) == [source_url |-> url, media_type |-> type, local_path |-> path]

\* An asset that was attempted, and what became of the attempt.
Tried(type, id, outcome) == [media_type |-> type, id |-> id, outcome |-> outcome]

InitMediaInputs ==
    /\ dns = [n \in DomainNames |-> PublicDns]
    /\ v_url = NoUrl
    /\ v_out = "none"
    /\ InitBatch
    /\ exp_obs = {}
    /\ InitDedup
    /\ InitSave
    /\ InitDownload
    /\ InitNote
    /\ m_pc = "idle"
    /\ m_doc \in SeqsUpTo(MediaRefs, MaxRefs)
    /\ m_under \in BOOLEAN
    /\ m_images = <<>>
    /\ m_videos = <<>>
    /\ m_k = 1
    /\ m_downloaded = {}
    /\ m_citations = <<>>
    /\ m_tried = <<>>
    /\ m_rewritten = {}
    /\ m_out = <<>>

varsNotMedia ==
    <<dns, varsValidate, varsBatch, varsExpiry, varsDedup, varsSave, varsDownload, varsNote>>

\* Lines 625-630: the two extractions, outside any try block.
MediaExtract ==
    /\ m_pc = "idle"
    /\ LET imgs == extract_image_urls(m_doc)
       IN  IF imgs.raises # "none"
           THEN m_pc' = "raised" /\ UNCHANGED <<m_images, m_videos>>
           ELSE /\ m_images' = imgs.list
                /\ m_videos' = extract_youtube_urls(m_doc)
                /\ m_pc' = "images"
    /\ m_k' = 1
    /\ UNCHANGED <<varsNotMedia, m_doc, m_under, m_downloaded, m_citations, m_tried, m_rewritten,
                   m_out>>

\* What download_media does for one image: returns a path or raises.
DownloadOutcomes == {"ok", "RuntimeError"}

\* Whether the except clause of the image loop has nothing to catch after a
\* download under attachments_dir: local_path.relative_to(vault_root) returns.
CitationBuilt(under) == under

\* Lines 633-649: one iteration of the image loop, or its end.
MediaImage ==
    /\ m_pc = "images"
    /\ IF m_k > Len(m_images)
       THEN /\ m_pc' = "videos"
            /\ m_k' = 1
            /\ UNCHANGED <<m_downloaded, m_citations, m_tried>>
       ELSE LET url == m_images[m_k]
            IN  /\ \E out \in DownloadOutcomes :
                      IF out = "ok"
                      THEN /\ m_downloaded' = m_downloaded \cup {url}
                           /\ IF CitationBuilt(m_under)
                              THEN /\ m_citations' = Append(m_citations, Citation(url, "image", "local"))
                                   /\ m_tried' = Append(m_tried, Tried("image", url, "downloaded"))
                              ELSE /\ UNCHANGED m_citations
                                   /\ m_tried' = Append(m_tried, Tried("image", url, "downloaded_then_ValueError"))
                      ELSE /\ m_tried' = Append(m_tried, Tried("image", url, out))
                           /\ UNCHANGED <<m_downloaded, m_citations>>
                /\ m_k' = m_k + 1
                /\ UNCHANGED m_pc
    /\ UNCHANGED <<varsNotMedia, m_doc, m_under, m_images, m_videos, m_rewritten, m_out>>

\* What process_youtube does for one video: fetch_youtube_metadata raises, or
\* the thumbnail is downloaded, or download_youtube_thumbnail returns None
\* (no thumbnail URL, or download_media raised and was caught there).
VideoOutcomes == {"metadata_RuntimeError", "thumbnail_downloaded", "no_thumbnail_url",
                  "thumbnail_failed"}

\* Lines 652-657: one iteration of the video loop, or its end.
MediaVideo ==
    /\ m_pc = "videos"
    /\ IF m_k > Len(m_videos)
       THEN /\ m_pc' = "rewrite"
            /\ UNCHANGED <<m_k, m_citations, m_tried>>
       ELSE LET id == m_videos[m_k]
            IN  /\ \E out \in VideoOutcomes :
                      /\ m_tried' = Append(m_tried, Tried("video", id, out))
                      /\ IF out = "metadata_RuntimeError"
                         THEN UNCHANGED m_citations
                         ELSE m_citations' = Append(m_citations,
                                  Citation(id, "video", IF out = "thumbnail_downloaded" THEN "local" ELSE ""))
                /\ m_k' = m_k + 1
                /\ UNCHANGED m_pc
    /\ UNCHANGED <<varsNotMedia, m_doc, m_under, m_images, m_videos, m_downloaded, m_rewritten,
                   m_out>>

\* The two re.sub calls of rewrite_markdown_images for one downloaded URL,
\* seen from one reference of the text: markdown image markup carrying that
\* very URL, or an <img> tag with a src-like attribute holding it, becomes the
\* embed of that URL; anything else is not matched.
RewriteRef(r, url) ==
    IF \/ r.kind = "md_image" /\ r.url = url
       \/ r.kind = "html_img" /\ url \in {r.url, r.other}
    THEN Ref("embed", url)
    ELSE r

\* rewrite_markdown_images(markdown, downloaded, vault_root): the for loop
\* over the dict in insertion order, from its k-th key on, each pass rewriting
\* the result of the pass before.
RECURSIVE RewriteLoop(_, _, _)
RewriteLoop(doc, keys, k) ==
    IF k > Len(keys) THEN doc
    ELSE RewriteLoop([n \in 1..Len(doc) |-> RewriteRef(doc[n], keys[k])], keys, k + 1)

\* The keys of downloaded in insertion order: the image loop runs over images.
DownloadedKeys(images, downloaded) ==
    LET IsKey(u) == u \in downloaded IN SelectSeq(images, IsKey)

rewrite_markdown_images(doc, images, downloaded) ==
    RewriteLoop(doc, DownloadedKeys(images, downloaded), 1)

\* Lines 659-662: rewrite_markdown_images over downloaded, and the return.
MediaReturn ==
    /\ m_pc = "rewrite"
    /\ m_rewritten' = m_downloaded
    /\ m_out' = rewrite_markdown_images(m_doc, m_images, m_downloaded)
    /\ m_pc' = "done"
    /\ UNCHANGED <<varsNotMedia, m_doc, m_under, m_images, m_videos, m_k, m_downloaded,
                   m_citations, m_tried>>

NextMedia ==
    \/ MediaExtract
    \/ MediaImage
    \/ MediaVideo
    \/ MediaReturn

SpecMedia == InitMediaInputs /\ [][NextMedia]_vars


\* ------------------- inject_citations_into_frontmatter, append_sources_section
\* A line of a note.  Frontmatter: the --- delimiter, a field, the
\* media_assets: key, one item of its list.  Body: text, a blank line, the
\* "## Sources" header, one line of the sources list.
Line(kind, url, label) == [kind |-> kind, url |-> url, label |-> label]
Delim == Line("---", "", "")
Field == Line("field", "", "title")
AssetsKey == Line("media_assets:", "", "")
AssetItem(c) == Line("asset", c.source_url, c.title)
TextLine == Line("text", "", "")
Blank == Line("", "", "")
SourcesHeader == Line("## Sources", "", "")
SourceLine(c) == Line("source", c.source_url, c.title)

\* Citations handed to the two functions; the last has no source URL.
NoteCitation(url, title) == [source_url |-> url, title |-> title]
NoteCitations ==
    {NoteCitation("https://e.com/a.png", "a"), NoteCitation("file:///b.mp3", "b"),
     NoteCitation("", "c")}

\* text.rstrip() on lines: the trailing blank lines go.
RECURSIVE RStripBlank(_)
RStripBlank(lines) ==
    IF lines # <<>> /\ lines[Len(lines)] = Blank
    THEN RStripBlank(SubSeq(lines, 1, Len(lines) - 1))
    ELSE lines

\* format_citations_frontmatter(citations)
format_citations_frontmatter(cits) ==
    IF cits = <<>> THEN <<>>
    ELSE <<AssetsKey>> \o [n \in 1..Len(cits) |-> AssetItem(cits[n])]

\* inject_citations_into_frontmatter(frontmatter, citations)
inject_citations_into_frontmatter(fm, cits) ==
    IF cits = <<>> THEN fm
    ELSE LET r == RStripBlank(fm)
         IN  IF r # <<>> /\ r[Len(r)] = Delim /\ Len(r) > 1
             THEN RStripBlank(SubSeq(r, 1, Len(r) - 1)) \o format_citations_frontmatter(cits)
                      \o <<Delim, Blank>>
             ELSE fm

\* The source_lines of append_sources_section: one per citation with a URL.
RECURSIVE SourceLines(_, _)
SourceLines(cits, k) ==
    IF k > Len(cits) THEN <<>>
    ELSE IF cits[k].source_url # "" THEN <<SourceLine(cits[k])>> \o SourceLines(cits, k + 1)
    ELSE SourceLines(cits, k + 1)

\* re.search(r"^## Sources\s*$", markdown, re.MULTILINE): the first header
\* line, 0 when there is none.
SourcesHeaderNever(lines) == 0

SourcesHeaderAt(lines) ==
    IF \E n \in 1..Len(lines) : lines[n] = SourcesHeader
    THEN CHOOSE n \in 1..Len(lines) :
            lines[n] = SourcesHeader /\ \A m \in 1..(n - 1) : lines[m] # SourcesHeader
    ELSE 0

\* Blank lines that follow line h: \s* of the pattern runs over them.
RECURSIVE BlanksAfter(_, _)
BlanksAfter(lines, h) ==
    IF h < Len(lines) /\ lines[h + 1] = Blank THEN 1 + BlanksAfter(lines, h + 1) ELSE 0

\* append_sources_section(markdown, citations)
append_sources_section(lines, cits) ==
    LET source_lines == SourceLines(cits, 1)
        h == SourcesHeaderAt(lines)
        at == h + BlanksAfter(lines, h)
    IN  IF cits = <<>> \/ source_lines = <<>> THEN lines
        ELSE IF h # 0
        THEN SubSeq(lines, 1, at) \o source_lines \o <<Blank>> \o SubSeq(lines, at + 1, Len(lines))
        ELSE RStripBlank(lines) \o <<Blank, SourcesHeader, Blank>> \o source_lines

\* Frontmatter and bodies of notes that exist before anything is attached.
NoteFrontmatters == {<<>>, <<Delim, Field, Delim, Blank>>}
NoteBodies ==
    {<<TextLine>>,
     <<TextLine, Blank, SourcesHeader, Blank, Line("source", "https://old.com", "Old")>>}

\* The source lines of a body.
Listed(lines) == {lines[n] : n \in {k \in 1..Len(lines) : lines[k].kind = "source"}}

InitNoteInputs ==
    /\ dns = [n \in DomainNames |-> PublicDns]
    /\ v_url = NoUrl
    /\ v_out = "none"
    /\ InitBatch
    /\ exp_obs = {}
    /\ InitDedup
    /\ InitSave
    /\ InitDownload
    /\ InitMedia
    /\ InitNote

varsNotNote ==
    <<dns, varsValidate, varsBatch, varsExpiry, varsDedup, varsSave, varsDownload, varsMedia>>

\* What one call of append_sources_section adds to the history.
Appended(cits) ==
    /\ n_appends' = n_appends + (IF cits # <<>> THEN 1 ELSE 0)
    /\ n_withurl' = n_withurl + (IF SourceLines(cits, 1) # <<>> THEN 1 ELSE 0)

\* A note somebody wrote is there.
NoteExists ==
    /\ n_pc = "new"
    /\ n_fm' \in NoteFrontmatters
    /\ n_body' \in NoteBodies
    /\ n_listed' = Listed(n_body')
    /\ n_pc' = "written"
    /\ UNCHANGED <<varsNotNote, n_calls, n_appends, n_withurl>>

\* ingest_url, lines 136-150: a new note built from the page and its citations.
NoteIngest ==
    /\ n_pc = "new"
    /\ \E cits \in SeqsUpTo(NoteCitations \ {NoteCitation("", "c")}, 2) :
          IF cits # <<>>
          THEN /\ n_fm' = inject_citations_into_frontmatter(<<Delim, Field, Delim, Blank>>, cits)
               /\ n_body' = append_sources_section(<<TextLine>>, cits)
               /\ n_listed' = Listed(SourceLines(cits, 1))
               /\ Appended(cits)
          ELSE /\ n_fm' = <<Delim, Field, Delim, Blank>>
               /\ n_body' = <<TextLine>>
               /\ UNCHANGED <<n_listed, n_appends, n_withurl>>
    /\ n_pc' = "written"
    /\ n_calls' = n_calls + 1
    /\ UNCHANGED varsNotNote

\* attach_media._update_note(note_path, local_path, citation, vault_root).
NoteAttach ==
    /\ n_pc = "written"
    /\ n_calls < MaxCalls
    /\ \E c \in NoteCitations \ {NoteCitation("", "c")} :
          /\ n_fm' = inject_citations_into_frontmatter(n_fm, <<c>>)
          /\ n_body' = append_sources_section(
                           n_body \o <<Blank, Line("embed", "", c.title), Line("cite", c.source_url, c.title)>>,
                           <<c>>)
          /\ n_listed' = n_listed \cup {SourceLine(c)}
          /\ Appended(<<c>>)
    /\ n_calls' = n_calls + 1
    /\ UNCHANGED <<varsNotNote, n_pc>>

\* append_sources_section(markdown, citations) called on the note's body.
NoteAppendSources ==
    /\ n_pc = "written"
    /\ n_calls < MaxCalls
    /\ \E cits \in SeqsUpTo(NoteCitations, 2) :
          /\ n_body' = append_sources_section(n_body, cits)
          /\ n_listed' = n_listed \cup Listed(SourceLines(cits, 1))
          /\ Appended(cits)
    /\ n_calls' = n_calls + 1
    /\ UNCHANGED <<varsNotNote, n_pc, n_fm>>

NextNote ==
    \/ NoteExists
    \/ NoteIngest
    \/ NoteAttach
    \/ NoteAppendSources

SpecNote == InitNoteInputs /\ [][NextNote]_vars


\* ===================================================================== claims
InFetch == pc = "fetch"
Terminal == InFetch /\ fpc \in {"returned", "raised"}
NoRequestIn(log) == \A n \in 1..Len(log) : log[n].ev # "request"
PrimaryRejected ==
    InFetch /\ Len(reqlog) >= 1 /\ reqlog[1] = [ev |-> "validate", kind |-> "", url |-> CurUrl, res |-> "reject"]

\* C1: when validate_url rejects the target in the primary attempt, fetch_url
\* ends Failed with the validation error, no reader request and no archive
\* lookup is issued, and the fallback block is never entered.
C1_ValidationFailureNeverFallsBack ==
    PrimaryRejected =>
        /\ fpc = "raised"
        /\ ~fret.ok
        /\ fret.exc = "ValueError"
        /\ via = "jina"
        /\ NoRequestIn(reqlog)

C1_Witness == PrimaryRejected /\ fpc = "raised"

\* C2: validate_url rejects exactly when the scheme is not http/https, or the
\* host is on the deny-list, or the host is a literal IP in a blocked range, or
\* the host is a domain with at least one resolved address in a blocked range;
\* a domain whose resolution fails is accepted.
InBlockedRange(a) == AddrFlags(a) # {}
C2_ShouldReject ==
    \/ v_url.scheme \notin {"http", "https"}
    \/ v_url.host \in {"localhost", "localhost.localdomain"}
    \/ v_url.host \in Addrs /\ InBlockedRange(v_url.host)
    \/ /\ v_url.host \in DomainNames
       /\ ~dns[v_url.host].gaierror
       /\ \E n \in 1..Len(dns[v_url.host].addrs) : InBlockedRange(dns[v_url.host].addrs[n])

C2_RejectsExactlyBlocked ==
    v_out # "none" => (v_out = "ValueError" <=> C2_ShouldReject)

\* A domain whose first resolved address is public and a later one is not.
C2_Witness ==
    /\ v_out = "ValueError"
    /\ v_url.scheme = "https"
    /\ v_url.host \in DomainNames
    /\ Len(dns[v_url.host].addrs) >= 2
    /\ ~InBlockedRange(dns[v_url.host].addrs[1])

\* C3: on every path an outbound request for a URL is issued only after the
\* validation of that URL succeeded; a snapshot URL that fails validation is
\* never requested and the retrieval ends Failed.
ValidatedBefore(log, n) ==
    \E m \in 1..(n - 1) : log[m] = [ev |-> "validate", kind |-> "", url |-> log[n].url, res |-> "ok"]
SnapshotRejected ==
    /\ InFetch
    /\ \E n \in 1..Len(reqlog) :
          reqlog[n].ev = "validate" /\ reqlog[n].res = "reject" /\ reqlog[n].url \in SnapshotUrls

C3_RequestOnlyAfterValidation ==
    /\ \A n \in 1..Len(reqlog) : reqlog[n].ev = "request" => ValidatedBefore(reqlog, n)
    /\ SnapshotRejected =>
          /\ fpc = "raised"
          /\ ~fret.ok
          /\ \A n \in 1..Len(reqlog) : reqlog[n].ev = "request" => reqlog[n].url \notin SnapshotUrls

C3_Witness == SnapshotRejected /\ fpc = "raised" /\ ~NoRequestIn(reqlog)

\* C4: when process_urls returns, every request of the input is in exactly one
\* of the two lists, exactly once, so the lengths add up to the input's length.
TimesIn(list, k) == Cardinality({n \in 1..Len(list) : list[n].idx = k /\ list[n].url = urls[k]})

C4_EveryRequestAccountedOnce ==
    pc = "done" =>
        /\ Len(fetched) + Len(failed) = Len(urls)
        /\ \A k \in 1..Len(urls) : TimesIn(fetched, k) + TimesIn(failed, k) = 1

C4_Witness == pc = "done" /\ Len(fetched) >= 1 /\ Len(failed) >= 1

\* C5: process_urls never raises for a per-item cause, whatever the state of
\* the cache store and the outcome of retrieval.
C5_NeverRaises == pc # "raised"

\* C6 as stated: a request whose key holds a non-expired, integrity-valid entry
\* is emitted with cache_hit = true carrying the cached content, and fetch_url
\* is not invoked for it.
ValidFreshAt(s) ==
    /\ s.file.kind = "object"
    /\ s.file.entry.content # NoText
    /\ s.file.entry.content_hash = [alg |-> "sha256", of |-> s.file.entry.content]
    /\ s.file.entry.fetched_at.tag = "iso"
    /\ s.t - s.file.entry.fetched_at.t <= ttl_days

FirstChars(t, n) == [src |-> t.src, len |-> IF t.len <= n THEN t.len ELSE n]

HitWith(k, c) ==
    /\ \E n \in 1..Len(fetched) :
          fetched[n].idx = k /\ fetched[n].cache_hit /\ fetched[n].content = c
    /\ k \notin invoked

C6_HitCarriesCachedContent ==
    \A k \in 1..Len(seen) :
        ValidFreshAt(seen[k]) => HitWith(k, seen[k].file.entry.content)

\* C6 amended: ... carrying the first MAX_CONTENT_CHARS characters of the
\* cached content, and fetch_url is not invoked for it.
C6_HitCarriesTruncatedContent ==
    \A k \in 1..Len(seen) :
        ValidFreshAt(seen[k]) =>
            HitWith(k, FirstChars(seen[k].file.entry.content, MAX_CONTENT_CHARS))

C6_Witness ==
    \E k \in 1..Len(seen) :
        /\ ValidFreshAt(seen[k])
        /\ seen[k].file.entry.content.len > MAX_CONTENT_CHARS
        /\ HitWith(k, FirstChars(seen[k].file.entry.content, MAX_CONTENT_CHARS))

\* C7: before each invocation of fetch_url at least fetch_delay has elapsed
\* since the previous network fetch of the batch, succeeded or failed.
C7_DelayBeforeEveryFetch ==
    call_prev >= 0 => call_start - call_prev >= fetch_delay

\* C8: fetch_url reports "jina" exactly when the primary fetch succeeded, and
\* "wayback" exactly when the primary fetch failed with a non-validation error,
\* the lookup returned a snapshot with status "200" and the fetch of the
\* snapshot succeeded; the content is that of the attempt that succeeded.
Responded(kind, U, R) ==
    \E n \in 1..Len(reqlog) :
        /\ reqlog[n].ev = "response"
        /\ reqlog[n].kind = kind
        /\ reqlog[n].url \in U
        /\ reqlog[n].res \in R

C8_MethodNamesTheAttemptThatSucceeded ==
    Terminal =>
        /\ (fret.ok /\ fret.method = "jina") <=> Responded("reader", {CurUrl}, {"ok"})
        /\ (fret.ok /\ fret.method = "wayback") <=>
              /\ Responded("reader", {CurUrl}, {"RequestException", "InvalidHeader"})
              /\ Responded("lookup", {CurUrl}, {"status_200"})
              /\ Responded("reader", SnapshotUrls, {"ok"})
        /\ fret.ok => fret.method \in {"jina", "wayback"}
        /\ (fret.ok /\ fret.method = "jina") => fret.content.src = "live"
        /\ (fret.ok /\ fret.method = "wayback") => fret.content.src = "archived"

C8_Witness == Terminal /\ fret.ok /\ fret.method = "wayback"

\* C9: load_cache after save_cache on an unmodified store returns the content
\* written; if the stored content is altered while the stored hash is left as
\* written, load_cache returns None.
C9_RoundTripAndTamper ==
    \A k \in Keys :
        LET w == written[k]
            r == load_cache(store[k])
        IN  w.entry.content # NoText =>
              /\ store[k] = w.file =>
                    r.raises = "none" /\ ~r.none /\ r.entry.content = w.entry.content
              /\ ( /\ store[k].kind = "object"
                   /\ store[k].entry.content \notin {NoText, w.entry.content}
                   /\ store[k].entry.content_hash = w.file.entry.content_hash )
                 => r.raises = "none" /\ r.none

C9_Witness ==
    \E k \in Keys :
        /\ written[k].entry.content # NoText
        /\ store[k].kind = "object"
        /\ store[k].entry.content \notin {NoText, written[k].entry.content}
        /\ store[k].entry.content_hash = written[k].file.entry.content_hash
        /\ load_cache(store[k]).none

\* C10: every entry surfaced to process_urls as a cache hit carries an integrity
\* hash equal to the digest of its content at read time, whatever was done to
\* the stored record (content altered, hash altered, emptied or removed).
C10_HitsCarryMatchingHash ==
    \A n \in 1..Len(fetched) :
        fetched[n].cache_hit =>
            LET e == seen[fetched[n].idx].file.entry
            IN  e.content_hash = [alg |-> "sha256", of |-> e.content]

\* C11: is_expired is true exactly when fetched_at is missing or unparsable, or
\* the clock minus fetched_at is strictly greater than ttl; so an entry just
\* written with fetched_at = now is not expired, and once an entry's age
\* exceeds ttl it is expired at every later clock value.
C11_ExpiredExactlyWhenStaleOrUnparsable ==
    /\ \A o \in exp_obs :
          o.expired <=> (o.entry.fetched_at.tag # "iso" \/ o.t - o.entry.fetched_at.t > ttl_days)
    /\ \A o \in exp_obs : o.entry.fetched_at = [tag |-> "iso", t |-> o.t] => ~o.expired
    /\ \A o1, o2 \in exp_obs : (o1.t <= o2.t /\ o1.expired) => o2.expired

\* One entry seen fresh when written, at the edge of its ttl, and expired later.
C11_Witness ==
    \E o1, o2, o3 \in exp_obs :
        /\ o1.entry.fetched_at = [tag |-> "iso", t |-> o1.t] /\ ~o1.expired
        /\ o2.t - o1.t = ttl_days /\ ~o2.expired
        /\ o3.t - o1.t > ttl_days /\ o3.expired

\* C12: deduplicate_urls returns the subsequence of its input that keeps, in
\* the original order, the first item of each normalized URL (lowercased,
\* trailing slashes stripped) and drops the later ones; applying it to its own
\* result changes nothing.
C12_Normalized(u) ==
    LET last == IF \E n \in 1..Len(u) : u[n] # "/"
                THEN CHOOSE n \in 1..Len(u) : u[n] # "/" /\ \A m \in (n + 1)..Len(u) : u[m] = "/"
                ELSE 0
    IN  [n \in 1..last |-> IF u[n] = "A" THEN "a" ELSE IF u[n] = "B" THEN "b" ELSE u[n]]

\* Positions of the input that hold the first item of their normalized URL.
C12_FirstPositions ==
    {k \in 1..Len(d_in) :
        \A j \in 1..(k - 1) : C12_Normalized(d_in[j].url) # C12_Normalized(d_in[k].url)}

C12_DedupKeepsFirstAndIsIdempotent ==
    /\ d_pc \in {"once", "twice"} =>
          /\ Len(d_out) = Cardinality(C12_FirstPositions)
          /\ \A n \in 1..Len(d_out) :
                \E k \in C12_FirstPositions :
                    /\ Cardinality({j \in C12_FirstPositions : j <= k}) = n
                    /\ d_out[n] = d_in[k]
    /\ d_pc = "twice" => d_again = d_out

\* A list with a later duplicate that differs in case and in trailing slashes,
\* followed by another URL that is kept.
C12_Witness ==
    /\ d_pc = "twice"
    /\ Len(d_in) = 3
    /\ d_in[1].url = <<"a", "/">>
    /\ d_in[2].url = <<"A">>
    /\ d_in[3].url = <<"b">>
    /\ d_out = <<d_in[1], d_in[3]>>

\* C13: every FetchResult emitted by process_urls, on a cache hit as on a fresh
\* fetch, has content of at most MAX_CONTENT_CHARS characters, and when the
\* source content (the cached content, or what fetch_url returned) is longer,
\* the emitted content is exactly its first MAX_CONTENT_CHARS characters.
C13_EmittedContentWithinCeiling ==
    [][Len(fetched') = Len(fetched) + 1 =>
          LET r == fetched'[Len(fetched')]
              source == IF r.cache_hit THEN seen'[r.idx].file.entry.content ELSE fret.content
          IN  /\ r.content.len <= MAX_CONTENT_CHARS
              /\ source.len > MAX_CONTENT_CHARS =>
                    r.content = [src |-> source.src, len |-> MAX_CONTENT_CHARS]]_vars

\* A fresh fetch whose body was longer than the ceiling has been emitted.
C13_Witness ==
    \E n \in 1..Len(fetched) :
        /\ ~fetched[n].cache_hit
        /\ fetched[n].content = [src |-> "live", len |-> MAX_CONTENT_CHARS]

\* C14: save_cache replaces the record of a key atomically: a reader of the
\* same key running concurrently never observes a half-written record (an
\* empty or partial file), only the complete previous record or the complete
\* new one.
C14_ReaderSeesOldOrNewRecord ==
    rd_obs.read => rd_obs.file \in {rd_obs.old, rd_obs.new}

\* C15: download_media aborts with an error and writes no file to the
\* destination whenever the declared Content-Length exceeds MAX_DOWNLOAD_SIZE
\* (before any of the body is read) or the bytes streamed exceed it (with no
\* or an understated declared length); a file is written only when the whole
\* body is within the ceiling.
C15_DeclaredOver == dl_declared.kind = "int" /\ dl_declared.n > MAX_DOWNLOAD_SIZE

C15_OversizeNeverWritten ==
    /\ C15_DeclaredOver => dl_total = 0 /\ dl_files = dl_before /\ dl_out # "returned"
    /\ (C15_DeclaredOver /\ dl_pc = "done" /\ dl_out \notin {"ValueError", "RequestException"}) =>
          dl_out = "RuntimeError"
    /\ dl_total > MAX_DOWNLOAD_SIZE =>
          dl_pc = "done" /\ dl_out = "RuntimeError" /\ dl_files = dl_before
    /\ (dl_pc = "done" /\ dl_out = "returned") => dl_body <= MAX_DOWNLOAD_SIZE
    /\ dl_files # dl_before =>
          /\ dl_pc = "done" /\ dl_out = "returned"
          /\ dl_body <= MAX_DOWNLOAD_SIZE
          /\ \E f \in dl_files : f.size = dl_body
    /\ (dl_pc = "write" \/ (dl_pc = "done" /\ dl_out = "returned")) => dl_total = dl_body

\* A body one byte over the ceiling behind an understated Content-Length was
\* cut off mid-stream, with an earlier file of the same name left as it was.
C15_Witness ==
    /\ dl_pc = "done"
    /\ dl_out = "RuntimeError"
    /\ dl_declared = [kind |-> "int", n |-> 100]
    /\ dl_total > MAX_DOWNLOAD_SIZE
    /\ dl_name = "vid-thumbnail.jpg"
    /\ dl_files = dl_before
    /\ dl_before # {}

\* C16: extract_and_download_media attempts every image and every video of the
\* document whether or not earlier assets failed, and returns normally: the
\* failure of one asset never aborts the processing of the others.
C16_ImageUrls ==
    {m_doc[n].url : n \in {k \in 1..Len(m_doc) :
        m_doc[k].kind \in {"md_image", "html_img"} /\ m_doc[k].url.form = "https"}}
C16_VideoIds ==
    {m_doc[n].url.id : n \in {k \in 1..Len(m_doc) : m_doc[k].kind \in {"watch", "youtu.be", "embed"}}}
C16_TriedOnce(type, id) ==
    Cardinality({n \in 1..Len(m_tried) : m_tried[n].media_type = type /\ m_tried[n].id = id}) = 1

C16_EveryAssetAttemptedAndReturns ==
    /\ m_pc # "raised"
    /\ m_pc = "done" =>
          /\ \A u \in C16_ImageUrls : C16_TriedOnce("image", u)
          /\ \A v \in C16_VideoIds : C16_TriedOnce("video", v)

\* C17: the returned citation list holds exactly one Citation for each asset
\* that was downloaded and none for an asset whose download failed: the image
\* URLs rewritten to local embeds are the image URLs that have a citation, and
\* a video whose thumbnail download failed contributes no citation.
C17_Cited(type) ==
    {m_citations[n].source_url : n \in {k \in 1..Len(m_citations) : m_citations[k].media_type = type}}
C17_CitationsOf(type, id) ==
    Cardinality({n \in 1..Len(m_citations) :
        m_citations[n].media_type = type /\ m_citations[n].source_url = id})

C17_OneCitationPerDownloadedAsset ==
    m_pc = "done" =>
        /\ m_rewritten = C17_Cited("image")
        /\ \A n \in 1..Len(m_tried) :
              /\ m_tried[n].outcome \in {"downloaded", "downloaded_then_ValueError",
                                         "thumbnail_downloaded"} =>
                    C17_CitationsOf(m_tried[n].media_type, m_tried[n].id) = 1
              /\ m_tried[n].outcome \in {"RuntimeError", "thumbnail_failed"} =>
                    C17_CitationsOf(m_tried[n].media_type, m_tried[n].id) = 0

\* C18: after any sequence of attach and ingest operations on a note, its
\* frontmatter holds at most one media_assets block: a second injection merges
\* into the block that is there instead of adding another media_assets key.
C18_AtMostOneMediaAssetsBlock ==
    Cardinality({n \in 1..Len(n_fm) : n_fm[n].kind = "media_assets:"}) <= 1

\* C19 as stated: after any sequence of append_sources_section calls with
\* non-empty citations the document has exactly one "## Sources" header, and
\* every line listed so far stands under it.
C19_Headers == {n \in 1..Len(n_body) : n_body[n].kind = "## Sources"}
C19_ListedUnderHeader ==
    \A l \in n_listed :
        \E h \in C19_Headers, n \in 1..Len(n_body) : h < n /\ n_body[n] = l

C20_AttemptsListWhatWasTried ==
    [][Len(failed') = Len(failed) + 1 =>
          failed'[Len(failed')].attempts =
              IF via = "wayback" THEN <<"jina", "wayback">> ELSE <<"jina">>]_vars

\* C21: a request of process_urls that ends as a FetchFailure because fetch_url
\* raised (the URL was blocked by validation, or every method was exhausted)
\* leaves the cache store as it was: the file under its key is the one
\* load_cache read at the head of the iteration, so no entry is created and an
\* expired or invalid record is not overwritten.
C21_FailureLeavesStoreUnchanged ==
    [][(pc = "fetch" /\ fpc = "raised" /\ Len(failed') = Len(failed) + 1) =>
          /\ store' = store
          /\ store'[url_cache_key(urls[i])] = seen[Len(seen)].file]_vars

\* A batch returned after a request for a URL with an expired record exhausted
\* both methods, and the record is still there; another was blocked and has no file.
C21_Witness ==
    /\ pc = "done"
    /\ \E n \in 1..Len(failed) :
          /\ failed[n].error = "All fetch methods failed"
          /\ store[url_cache_key(failed[n].url)].kind = "object"
          /\ is_expired(store[url_cache_key(failed[n].url)].entry, ttl_days, now)
    /\ \E n \in 1..Len(failed) :
          /\ failed[n].error = "Blocked hostname"
          /\ store[url_cache_key(failed[n].url)].kind = "missing"

\* C22: in the fallback, when the archive lookup fails, names no closest
\* snapshot or names one whose status is not "200", fetch_url ends with the
\* aggregated "All fetch methods failed" error and sends no reader request for
\* a snapshot URL; it raises the same aggregated error when the fetch of the
\* snapshot fails (its validation or its request).
C22_Aggregated == Raised("RuntimeError", "All fetch methods failed")

C22_NoSnapshotEndsFailedWithoutFetch ==
    pc = "fetch" =>
        /\ \A n \in 1..Len(reqlog) :
              (reqlog[n].ev = "response" /\ reqlog[n].kind = "lookup" /\ reqlog[n].res # "status_200") =>
                  /\ n = Len(reqlog)
                  /\ fpc = "raised"
                  /\ fret = C22_Aggregated
        /\ (fpc = "raised" /\ via = "wayback") => fret = C22_Aggregated

\* The archive answered with a snapshot of status 404 and fetch_url has raised.
C22_Witness ==
    /\ pc = "fetch"
    /\ fpc = "raised"
    /\ fret = C22_Aggregated
    /\ reqlog # <<>>
    /\ reqlog[Len(reqlog)] = Response("lookup", urls[i], "status_404")

\* C23: for one URL, fetch_url always ends, returning or raising, after at
\* most one archive lookup and at most two reader requests, the first for the
\* target and the second for the snapshot URL: once the fetch of the snapshot
\* has failed, no further lookup and no further request follows.
C23_Requests(kind) == {n \in 1..Len(reqlog) : reqlog[n].ev = "request" /\ reqlog[n].kind = kind}

C23_Bounded ==
    /\ Cardinality(C23_Requests("lookup")) <= 1
    /\ Cardinality(C23_Requests("reader")) <= 2
    /\ \A n \in C23_Requests("lookup") : reqlog[n].url = urls[i]
    /\ \A n, m \in C23_Requests("reader") :
          n < m => /\ reqlog[n].url = urls[i]
                   /\ reqlog[m].url \in SnapshotUrls
                   /\ \E l \in C23_Requests("lookup") : n < l /\ l < m
    /\ fpc \in {"returned", "raised"} => ~ENABLED (JinaValidate \/ JinaRequest \/ WaybackLookup)

C23_FetchUrlEndsAfterOneFallbackHop ==
    /\ []C23_Bounded
    /\ (pc = "fetch") ~> (fpc \in {"returned", "raised"})

\* fetch_url has raised after the request for the snapshot failed: two reader
\* requests and one lookup were sent.
C23_Witness ==
    /\ pc = "fetch"
    /\ fpc = "raised"
    /\ Cardinality(C23_Requests("lookup")) = 1
    /\ Cardinality(C23_Requests("reader")) = 2
    /\ reqlog[Len(reqlog)].res = "RequestException"

\* C24: when process_urls emits a FetchResult with cache_hit = false (the
\* entry was absent, invalid or expired and retrieval succeeded), the file of
\* that key holds exactly the new record, stamped with the current time;
\* load_cache of the key right afterwards returns a non-expired entry whose
\* content and fetched_at are those of the FetchResult; and a later cache hit
\* for the same URL in the batch carries that same content.
C24_Last(q) == q[Len(q)]

C24_Emitted == Len(fetched') = Len(fetched) + 1

C24_RefetchReplacesRecordAndThenHits ==
    [][/\ (C24_Emitted /\ ~C24_Last(fetched').cache_hit) =>
             LET r == C24_Last(fetched')
                 f == store'[url_cache_key(r.url)]
             IN  /\ f = ObjectFile(Entry(r.content, _content_hash(r.content), Stamp(now'),
                                         r.fetch_method))
                 /\ r.fetched_at = Stamp(now')
                 /\ load_cache(f).raises = "none"
                 /\ ~load_cache(f).none
                 /\ load_cache(f).entry.content = r.content
                 /\ ~(now' - load_cache(f).entry.fetched_at.t > ttl_days)
       /\ (C24_Emitted /\ C24_Last(fetched').cache_hit) =>
             \A n \in 1..Len(fetched) :
                 (fetched[n].url = C24_Last(fetched').url /\ ~fetched[n].cache_hit) =>
                     /\ C24_Last(fetched').content = fetched[n].content
                     /\ C24_Last(fetched').fetched_at = fetched[n].fetched_at]_vars

\* A batch that named one URL twice found its record expired, fetched a page
\* longer than the ceiling, and served the second request from the new record.
C24_Witness ==
    /\ pc = "done"
    /\ Len(fetched) = 2
    /\ seen[1].file.kind = "object"
    /\ seen[1].file.entry.fetched_at.tag = "iso"
    /\ seen[1].t - seen[1].file.entry.fetched_at.t > ttl_days
    /\ ~fetched[1].cache_hit
    /\ fetched[2].cache_hit
    /\ fetched[2].url = fetched[1].url
    /\ fetched[2].content = fetched[1].content
    /\ fetched[1].content.len = MAX_CONTENT_CHARS
    /\ store[url_cache_key(fetched[1].url)].entry.content = fetched[1].content

\* C25: whenever fetch_url returned content for a request of process_urls,
\* that request is emitted as a FetchResult with cache_hit = false carrying the
\* content, and not as a FetchFailure, whatever became of the write to the cache.
C25_RetrievedContentIsEmitted ==
    [][(pc = "fetch" /\ fpc = "returned") =>
          /\ failed' = failed
          /\ Len(fetched') = Len(fetched) + 1
          /\ ~fetched'[Len(fetched')].cache_hit
          /\ fetched'[Len(fetched')].content.src = fret.content.src]_vars

\* C26: extract_and_download_media attempts a download for every image
\* reference whose URL is relative (it is resolved against the document's
\* source URL first); among the URLs urlparse accepts, only data-URIs and
\* in-document anchors are left out of the downloads.
C26_RelativeImagesAreAttempted ==
    m_pc = "done" =>
        \A n \in 1..Len(m_doc) :
            (m_doc[n].kind \in {"md_image", "html_img"} /\ m_doc[n].url.form = "relative") =>
                \E t \in 1..Len(m_tried) :
                    m_tried[t].media_type = "image" /\ m_tried[t].id = m_doc[n].url

\* C27: in the markdown extract_and_download_media returns, every image
\* reference (each occurrence, in the markdown and in the HTML shape) whose
\* URL was downloaded is replaced by a local embed, so that no image markup
\* keeps the external URL of a downloaded image, and every other reference,
\* those whose download failed among them, is exactly as it was.
C27_Succeeded ==
    {m_tried[n].id : n \in {k \in 1..Len(m_tried) :
        m_tried[k].media_type = "image" /\
        m_tried[k].outcome \in {"downloaded", "downloaded_then_ValueError"}}}

C27_RewrittenExactlyWhereDownloaded ==
    m_pc = "done" =>
        /\ Len(m_out) = Len(m_doc)
        /\ \A n \in 1..Len(m_doc) :
              IF m_doc[n].kind \in {"md_image", "html_img"} /\ m_doc[n].url \in C27_Succeeded
              THEN m_out[n].kind = "embed"
              ELSE m_out[n] = m_doc[n]

\* C28: extract_youtube_urls returns exactly one canonical watch-page URL for
\* each distinct video id that stands in the text in the watch-page, the
\* short-link or the embed-path shape: two forms of one video give one entry,
\* and a text without a video URL gives the empty list.
C28_IdsInText ==
    {m_doc[n].url.id : n \in {k \in 1..Len(m_doc) : m_doc[k].kind \in {"watch", "youtu.be", "embed"}}}

C28_OneWatchUrlPerVideoId ==
    m_pc \notin {"idle", "raised"} =>
        /\ {m_videos[n] : n \in 1..Len(m_videos)} = C28_IdsInText
        /\ Len(m_videos) = Cardinality(C28_IdsInText)
        /\ C28_IdsInText = {} => m_videos = <<>>

\* One video stands in the text as a watch page and as a short link, another
\* as an embed path: two URLs are returned.
C28_Witness ==
    /\ m_pc = "images"
    /\ \E a, b, c \in 1..Len(m_doc) :
          /\ m_doc[a] = Ref("youtu.be", MediaUrl("https", "v1"))
          /\ m_doc[b] = Ref("watch", MediaUrl("https", "v1"))
          /\ m_doc[c] = Ref("embed", MediaUrl("https", "v2"))
    /\ m_videos = <<"v1", "v2">>

\* C29 as stated: url_cache_key(url) is the MD5 hex digest of the UTF-8 bytes
\* of the URL: the file process_urls writes for a request is the one named by
\* the MD5 digest of its URL.
C29_Changed == {k \in DOMAIN store : store'[k] # store[k]}

C30_HitStep == Len(fetched') = Len(fetched) + 1 /\ fetched'[Len(fetched')].cache_hit

C30_HitLeavesStoreAndStampUntouched ==
    [][C30_HitStep =>
          LET r == fetched'[Len(fetched')]
              k == url_cache_key(r.url)
          IN  /\ store' = store
              /\ r.fetched_at = store[k].entry.fetched_at
              /\ store[k] = written[k].file =>
                    /\ r.fetched_at = written[k].entry.fetched_at
                    /\ now - written[k].entry.fetched_at.t <= ttl_days]_vars

\* One record served two hits at different times, is still the file that was
\* saved, and has now expired, one TTL after its save.
C30_Witness ==
    /\ Len(fetched) = 2
    /\ fetched[1].cache_hit
    /\ fetched[2].cache_hit
    /\ fetched[2].url = fetched[1].url
    /\ seen[1].t < seen[2].t
    /\ fetched[2].fetched_at = fetched[1].fetched_at
    /\ store[url_cache_key(fetched[1].url)] = written[url_cache_key(fetched[1].url)].file
    /\ now - fetched[1].fetched_at.t = ttl_days + 1

====
